---- MODULE Spec2Model ----
(***************************************************************************)
(* alif-cli: build-context resolution, target-configuration discovery,    *)
(* the staging/signing protocol and the flash pipeline.                   *)
(*                                                                         *)
(* Go strings are modelled as sequences of one-character strings, so that *)
(* prefix, suffix, substring, lower-casing and number parsing are         *)
(* computed, not assumed.                                                  *)
(***************************************************************************)
EXTENDS Integers, Sequences, FiniteSets, TLC

\* ------------------------------------------------------------------ bounds
MaxContexts == 2

\* ---------------------------------------------------------------- state
\* context resolution
VARIABLES
  cbuildOut,      \* the context strings "cbuild list contexts" prints, in its order
  targetFilter,   \* argument targetFilter / target
  projectFilter,  \* argument projectFilter / projectName
  ctxStdin,       \* the line available on standard input
  ctxRet          \* what the resolver returned and what it did on the way

ctxVars == <<cbuildOut, targetFilter, projectFilter, ctxStdin, ctxRet>>

\* target configuration resolution
VARIABLES
  cfgFs,          \* the configuration files on disk
  explicitPath,   \* argument explicitPath (NoPath when empty)
  coreHint,       \* argument coreHint
  projectHint,    \* argument projectHint
  tcStdin,        \* the line available on standard input
  tcRet           \* what ResolveTargetConfig returned and what it did on the way

tcVars == <<cfgFs, explicitPath, coreHint, projectHint, tcStdin, tcRet>>

\* a signing run
VARIABLES
  tk,         \* toolkit files
  bd,         \* build-directory files
  sgPc,       \* position inside SignArtifact
  sgIdx,      \* index of the next entry of the retrieval table
  sgDefer,    \* whether "defer os.Remove(stagedCfgPath)" has been registered
  sgRet,      \* the result SignArtifact returned
  sgEnv,      \* environment of the run: crossDevice, produced
  faults,     \* failed file operations so far
  warned      \* warnings printed so far

sgVars == <<tk, bd, sgPc, sgIdx, sgDefer, sgRet, sgEnv, faults, warned>>

\* JTAG programming
VARIABLES
  mapText,    \* the text app-gen-toc writes into app-package-map.txt
  jlRet       \* what flashViaJLink returned and did

jlVars == <<mapText, jlRet>>

\* the flash command
VARIABLES
  flPc,        \* position inside runFlash / Flasher.Flash
  flArgs,      \* mode and the flags --method, --no-verify, --no-erase
  flIdx,       \* index of the next staging copy of Flasher.Flash
  port,        \* the port SelectPort returned
  ispCfg,      \* isp_config_data.cfg: missing, unreadable, or a file with its text
  connected,   \* identity of the device on the port ("none": no answer)
  targetId,    \* identity of the resolved target
  verified,    \* result of VerifyConnectedDevice in this run
  toolLog,     \* external tools started so far, in order
  exitStatus   \* "running", "0" or "1"

flVars == <<flPc, flArgs, flIdx, port, ispCfg, connected, targetId, verified, toolLog, exitStatus>>

\* toolkit synchronisation
VARIABLES
  syTools,    \* whether alifToolsPath is non-empty
  syTarget,   \* argument targetID
  syDev,      \* utils/devicesDB.db
  syFeat,     \* utils/featuresDB.db
  syGlob,     \* utils/global-cfg.db
  syLog       \* the calls of SyncToolkitConfig so far: result, write, file afterwards

syVars == <<syTools, syTarget, syDev, syFeat, syGlob, syLog>>

\* successive signing runs
VARIABLES
  sgRuns,     \* runs of SignArtifact that were followed by another run
  sgPrev      \* files, result and environment at the end of the previous run

shVars == <<sgRuns, sgPrev>>

\* serial port selection
VARIABLES
  spPorts,    \* the serial ports the enumerator lists, in order
  spStdin,    \* what the user types at the port prompt
  spRet       \* result of SelectPort

spVars == <<spPorts, spStdin, spRet>>

\* build state
VARIABLES
  stateFile,  \* .alif_build_state under the solution root
  stLast,     \* arguments and write outcome of the last saveBuildState
  stSaves,    \* number of saves so far
  stLoaded    \* result of the last load

stVars == <<stateFile, stLast, stSaves, stLoaded>>

\* the build command
VARIABLES
  rbPc,       \* position of runBuild
  rbArgs,     \* flags of the build command
  rbCtx,      \* the context Build returned
  rbBin,      \* the located binary
  rbExit,     \* "running", or the exit status of the build command
  rbFile0     \* the state file when the run started

rbVars == <<rbPc, rbArgs, rbCtx, rbBin, rbExit, rbFile0>>

\* the spinner
VARIABLES
  snActive,   \* Spinner.active
  snClosed,   \* how many times close(s.stop) was executed
  snWg,       \* counter of Spinner.wg
  snMu,       \* holder of Spinner.mu, 0 when free
  snRun,      \* the goroutine of Spinner.run: "running" or "done"
  snOut,      \* what was printed, in order
  snPc,       \* position of each caller of Succeed or Fail
  snCall      \* which of the two each caller called

snVars == <<snActive, snClosed, snWg, snMu, snRun, snOut, snPc, snCall>>

\* binary field lookup of the signing configuration
VARIABLES
  bfCfg,      \* the signing configuration file, decoded
  bfLog       \* the binary field each SignArtifact run on it selected
bfVars == <<bfCfg, bfLog>>

vars == <<ctxVars, tcVars, sgVars, jlVars, flVars, syVars, shVars, spVars, stVars, rbVars, snVars, bfVars>>

\* ------------------------------------------------------------- Go strings
Upper == <<"A","B","C","D","E","F","G","H","I","J","K","L","M","N","O","P","Q","R","S","T","U","V","W","X","Y","Z">>
Lower == <<"a","b","c","d","e","f","g","h","i","j","k","l","m","n","o","p","q","r","s","t","u","v","w","x","y","z">>
Digits == <<"0","1","2","3","4","5","6","7","8","9">>
Space == {" ", "\n", "\t", "\r"}

ToLowerChar(c) ==
  IF \E i \in 1..26 : Upper[i] = c
  THEN Lower[CHOOSE i \in 1..26 : Upper[i] = c]
  ELSE c

\* strings.ToLower
ToLower(s) == [i \in 1..Len(s) |-> ToLowerChar(s[i])]

\* strings.HasPrefix
HasPrefix(s, p) == Len(p) <= Len(s) /\ SubSeq(s, 1, Len(p)) = p

\* strings.HasSuffix
HasSuffix(s, p) == Len(p) <= Len(s) /\ SubSeq(s, Len(s) - Len(p) + 1, Len(s)) = p

\* strings.Contains
Contains(s, sub) ==
  \E i \in 0..(Len(s) - Len(sub)) : SubSeq(s, i + 1, i + Len(sub)) = sub

\* strings.Index (0-based, -1 when absent)
Index(s, sub) ==
  IF Contains(s, sub)
  THEN CHOOSE i \in 0..(Len(s) - Len(sub)) :
         /\ SubSeq(s, i + 1, i + Len(sub)) = sub
         /\ \A j \in 0..(i - 1) : SubSeq(s, j + 1, j + Len(sub)) # sub
  ELSE -1

\* strings.LastIndex (0-based, -1 when absent)
LastIndex(s, sub) ==
  IF Contains(s, sub)
  THEN CHOOSE i \in 0..(Len(s) - Len(sub)) :
         /\ SubSeq(s, i + 1, i + Len(sub)) = sub
         /\ \A j \in (i + 1)..(Len(s) - Len(sub)) : SubSeq(s, j + 1, j + Len(sub)) # sub
  ELSE -1

\* strings.TrimSpace
TrimSpace(s) ==
  IF \A i \in 1..Len(s) : s[i] \in Space
  THEN << >>
  ELSE LET first == CHOOSE i \in 1..Len(s) : s[i] \notin Space /\ \A j \in 1..(i - 1) : s[j] \in Space
           last  == CHOOSE i \in 1..Len(s) : s[i] \notin Space /\ \A j \in (i + 1)..Len(s) : s[j] \in Space
       IN SubSeq(s, first, last)

DigitVal(c) == (CHOOSE i \in 1..10 : Digits[i] = c) - 1
IsDigit(c) == \E i \in 1..10 : Digits[i] = c

RECURSIVE DigitsVal(_)
DigitsVal(s) ==
  IF s = << >> THEN 0
  ELSE 10 * DigitsVal(SubSeq(s, 1, Len(s) - 1)) + DigitVal(s[Len(s)])

\* strconv.Atoi: optional sign followed by at least one decimal digit
Atoi(s) ==
  LET signed == Len(s) > 0 /\ s[1] \in {"+", "-"}
      body   == IF signed THEN Tail(s) ELSE s
  IN IF body = << >> \/ \E i \in 1..Len(body) : ~IsDigit(body[i])
     THEN [ok |-> FALSE, val |-> 0]
     ELSE [ok |-> TRUE,
           val |-> IF signed /\ s[1] = "-" THEN 0 - DigitsVal(body) ELSE DigitsVal(body)]

\* the elements of seq satisfying Test, in order
RECURSIVE SelectSeqIdx(_, _, _)
SelectSeqIdx(seq, keep, i) ==
  IF i > Len(seq) THEN << >>
  ELSE (IF i \in keep THEN <<seq[i]>> ELSE << >>) \o SelectSeqIdx(seq, keep, i + 1)

\* strings.Fields: the maximal runs of non-space characters
RECURSIVE Fields(_)
Fields(s) ==
  IF \A i \in 1..Len(s) : s[i] \in Space THEN << >>
  ELSE LET start == CHOOSE i \in 1..Len(s) : s[i] \notin Space /\ \A j \in 1..(i - 1) : s[j] \in Space
           stop  == IF \E i \in start..Len(s) : s[i] \in Space
                    THEN (CHOOSE i \in start..Len(s) :
                            s[i] \in Space /\ \A j \in start..(i - 1) : s[j] \notin Space) - 1
                    ELSE Len(s)
       IN << SubSeq(s, start, stop) >> \o Fields(SubSeq(s, stop + 1, Len(s)))

\* strings.Split(s, sep) for a one-character separator
RECURSIVE Split(_, _)
Split(s, sep) ==
  IF ~Contains(s, <<sep>>) THEN << s >>
  ELSE LET i == Index(s, <<sep>>)
       IN << SubSeq(s, 1, i) >> \o Split(SubSeq(s, i + 2, Len(s)), sep)

EmptyStr == << >>

\* ------------------------------------------------------ build contexts
\* a context string is "<project>.<buildType>+<target>"
Context(project, buildType, target) == project \o <<".">> \o buildType \o <<"+">> \o target

ProjHi == <<"h","i">>
ProjHi2 == <<"h","i","2">>
BtDebug == <<"d","e","b","u","g">>
BtRelease == <<"r","e","l","e","a","s","e">>
TgtHE == <<"H","E">>
TgtHP == <<"H","P">>

ContextUniverse ==
  { Context(p, b, t) : p \in {ProjHi, ProjHi2}, b \in {BtDebug, BtRelease}, t \in {TgtHE, TgtHP} }

\* the lists "cbuild list contexts" may report: distinct contexts, any order
ContextLists ==
  UNION { { l \in [1..n -> ContextUniverse] : \A i, j \in 1..n : i # j => l[i] # l[j] }
          : n \in 0..MaxContexts }

TargetFilters == { EmptyStr, TgtHE, TgtHP, <<"E">> }
ProjectFilters == { EmptyStr, ProjHi, ProjHi2, ProjHi \o <<".">> \o BtDebug, <<"z","z">> }

\* what the user types at a prompt (read up to and including the newline);
\* the empty string is end-of-input
StdinLines ==
  { EmptyStr, <<"1","\n">>, <<"2","\n">>, <<" ","2"," ","\n">>, <<"3","\n">>,
    <<"0","\n">>, <<"x","\n">>, <<"-","1","\n">> }

\* ------------------------------------------------- context resolution

CtxNone ==
  [fn |-> "none", env |-> "ok", ok |-> FALSE, value |-> EmptyStr, err |-> EmptyStr,
   prompted |-> FALSE, listed |-> << >>]

MsgNoSolution == <<"n","o"," ",".","c","s","o","l","u","t","i","o","n",".","y","m","l"," ","f","i","l","e"," ","f","o","u","n","d">>
MsgCbuildNotFound == <<"c","b","u","i","l","d"," ","n","o","t"," ","f","o","u","n","d","."," ","E","n","s","u","r","e"," ","C","M","S","I","S"," ","T","o","o","l","b","o","x"," ","i","s"," ","i","n","s","t","a","l","l","e","d"," ","a","n","d"," ","i","n"," ","P","A","T","H",".">>
MsgListFailed == <<"f","a","i","l","e","d"," ","t","o"," ","l","i","s","t"," ","c","o","n","t","e","x","t","s">>
MsgNoMatchFilter == <<"n","o"," ","m","a","t","c","h","i","n","g"," ","b","u","i","l","d"," ","c","o","n","t","e","x","t","s"," ","f","o","u","n","d"," ","f","o","r"," ","f","i","l","t","e","r","=","'">>
MsgInvalidSelection == <<"i","n","v","a","l","i","d"," ","s","e","l","e","c","t","i","o","n">>
MsgNoCtxProject == <<"n","o"," ","b","u","i","l","d"," ","c","o","n","t","e","x","t"," ","f","o","u","n","d"," ","m","a","t","c","h","i","n","g"," ","p","r","o","j","e","c","t"," ","'">>
MsgAndTarget == <<"'"," ","a","n","d"," ","t","a","r","g","e","t"," ","'">>
MsgNoCtxTarget == <<"n","o"," ","b","u","i","l","d"," ","c","o","n","t","e","x","t"," ","f","o","u","n","d"," ","m","a","t","c","h","i","n","g"," ","t","a","r","g","e","t"," ","'">>
Quote == <<"'">>
DotDebug == <<".","d","e","b","u","g">>

\* strings.Split(string(out), "\n") of a newline-terminated listing
OutLines(out) == Append(out, EmptyStr)

\* candidates chosen by the project filter alone
ContextCandidatesNoTarget(lines, tf, pf) ==
  LET keep == { i \in 1..Len(lines) :
                  /\ TrimSpace(lines[i]) # EmptyStr
                  /\ ~(pf # EmptyStr /\ ~HasPrefix(TrimSpace(lines[i]), pf)) }
  IN SelectSeqIdx([i \in 1..Len(lines) |-> TrimSpace(lines[i])], keep, 1)

\* the lines kept by the filter loop of ResolveContext, in listing order
ContextCandidates(lines, tf, pf) ==
  LET keep == { i \in 1..Len(lines) :
                  /\ TrimSpace(lines[i]) # EmptyStr
                  /\ ~(tf # EmptyStr /\ ~HasSuffix(TrimSpace(lines[i]), <<"+">> \o tf))
                  /\ ~(pf # EmptyStr /\ ~HasPrefix(TrimSpace(lines[i]), pf)) }
  IN SelectSeqIdx([i \in 1..Len(lines) |-> TrimSpace(lines[i])], keep, 1)

\* the numbered choice read from the prompt: the candidate picked, or an error
PromptSelect(cands, input) ==
  LET sel == Atoi(TrimSpace(input))
  IN IF ~sel.ok \/ sel.val < 1 \/ sel.val > Len(cands)
     THEN [ok |-> FALSE, value |-> EmptyStr, err |-> MsgInvalidSelection]
     ELSE [ok |-> TRUE, value |-> cands[sel.val], err |-> EmptyStr]

\* Builder.ResolveContext: env is the outcome of locating the solution file
\* and of running "cbuild list contexts"
ResolveContextResult(env, out, tf, pf, input) ==
  LET base  == [CtxNone EXCEPT !.fn = "ResolveContext", !.env = env]
      cands == ContextCandidates(OutLines(out), tf, pf)
  IN CASE env = "nosolution" -> [base EXCEPT !.err = MsgNoSolution]
       [] env = "notfound"   -> [base EXCEPT !.err = MsgCbuildNotFound]
       [] env = "listfail"   -> [base EXCEPT !.err = MsgListFailed]
       [] OTHER ->
          IF Len(cands) = 0
          THEN [base EXCEPT !.err = MsgNoMatchFilter \o pf \o Quote]
          ELSE IF Len(cands) = 1
          THEN [base EXCEPT !.ok = TRUE, !.value = cands[1]]
          ELSE LET pick == PromptSelect(cands, input)
               IN [base EXCEPT !.prompted = TRUE, !.listed = cands,
                               !.ok = pick.ok, !.value = pick.value, !.err = pick.err]

\* the candidate list of the earlier resolveContext: a ".debug" line is
\* pushed to the front, any other line is appended
RECURSIVE LegacyCandidates(_, _, _, _)
LegacyCandidates(lines, target, projectName, i) ==
  IF i = 0 THEN << >>
  ELSE LET line == TrimSpace(lines[i])
           rest == LegacyCandidates(lines, target, projectName, i - 1)
       IN IF line = EmptyStr THEN rest
          ELSE IF ~HasSuffix(line, <<"+">> \o target) THEN rest
          ELSE IF projectName # EmptyStr /\ ~HasPrefix(line, projectName \o <<".">>) THEN rest
          ELSE IF Contains(line, DotDebug) THEN <<line>> \o rest
          ELSE Append(rest, line)

\* Builder.resolveContext (the revision without a prompt)
resolveContextResult(env, out, target, projectName) ==
  LET base  == [CtxNone EXCEPT !.fn = "resolveContext", !.env = env]
      lines == OutLines(out)
      cands == LegacyCandidates(lines, target, projectName, Len(lines))
  IN IF Contains(target, <<".">>) /\ Contains(target, <<"+">>)
     THEN [base EXCEPT !.env = "ok", !.ok = TRUE, !.value = target]
     ELSE IF env # "ok"
     THEN [base EXCEPT !.env = "listfail", !.err = MsgListFailed]
     ELSE IF Len(cands) = 0
     THEN [base EXCEPT !.err =
             IF projectName # EmptyStr
             THEN MsgNoCtxProject \o projectName \o MsgAndTarget \o target \o Quote
             ELSE MsgNoCtxTarget \o target \o Quote]
     ELSE [base EXCEPT !.ok = TRUE, !.value = cands[1]]

ResolveContext ==
  /\ ctxRet.fn = "none"
  /\ \E env \in {"ok", "nosolution", "notfound", "listfail"} :
       ctxRet' = ResolveContextResult(env, cbuildOut, targetFilter, projectFilter, ctxStdin)
  /\ UNCHANGED <<cbuildOut, targetFilter, projectFilter, ctxStdin>>
  /\ UNCHANGED <<tcVars, sgVars, jlVars, flVars, syVars, shVars, spVars, stVars, rbVars, snVars, bfVars>>

\* Builder.Build rejects an empty target before it calls resolveContext
resolveContext ==
  /\ ctxRet.fn = "none"
  /\ targetFilter # EmptyStr
  /\ \E env \in {"ok", "listfail"} :
       ctxRet' = resolveContextResult(env, cbuildOut, targetFilter, projectFilter)
  /\ UNCHANGED <<cbuildOut, targetFilter, projectFilter, ctxStdin>>
  /\ UNCHANGED <<tcVars, sgVars, jlVars, flVars, syVars, shVars, spVars, stVars, rbVars, snVars, bfVars>>

\* ---- what the specification calls a match, read off the context string
\* the target of a context: the text after its "+"
CtxTargetOf(c) == SubSeq(c, Index(c, <<"+">>) + 2, Len(c))

CtxMatches(c, tf, pf) ==
  /\ tf = EmptyStr \/ CtxTargetOf(c) = tf
  /\ pf = EmptyStr \/ HasPrefix(c, pf)

\* the listed contexts that match the filters, in the order reported
Matching ==
  SelectSeqIdx(cbuildOut,
               { i \in 1..Len(cbuildOut) : CtxMatches(cbuildOut[i], targetFilter, projectFilter) }, 1)

Listed(fn) == ctxRet.fn = fn /\ ctxRet.env = "ok"

\* C5: when exactly one listed context matches the filters, ResolveContext
\* returns that context and does not read from standard input.
C5_SingleMatchReturned ==
  (Listed("ResolveContext") /\ Len(Matching) = 1)
    => (ctxRet.ok /\ ctxRet.value = Matching[1] /\ ~ctxRet.prompted)

C5_Witness ==
  /\ Listed("ResolveContext") /\ Len(Matching) = 1 /\ Len(cbuildOut) > 1
  /\ targetFilter # EmptyStr /\ projectFilter # EmptyStr
  /\ ctxRet.ok /\ ctxRet.value = Matching[1]

\* C6: when no listed context matches the filters, ResolveContext fails and
\* its error text contains the targetFilter value and the projectFilter value.
C6_NoMatchNamesBothFilters ==
  (Listed("ResolveContext") /\ Len(Matching) = 0)
    => (~ctxRet.ok /\ Contains(ctxRet.err, targetFilter) /\ Contains(ctxRet.err, projectFilter))

\* C7: when more than one listed context matches, resolution lists the
\* matches in the reported order and asks; it returns the k-th match only
\* for a typed k with 1 <= k <= n, and fails for any other input.
C7_AmbiguityNeverAutoPicked ==
  ((Listed("ResolveContext") \/ Listed("resolveContext")) /\ Len(Matching) > 1)
    => LET sel == Atoi(TrimSpace(ctxStdin))
       IN /\ ctxRet.prompted /\ ctxRet.listed = Matching
          /\ ctxRet.ok => (sel.ok /\ sel.val \in 1..Len(Matching) /\ ctxRet.value = Matching[sel.val])
          /\ (~sel.ok \/ sel.val \notin 1..Len(Matching)) => ~ctxRet.ok

\* the same statement for the prompting revision alone
C7_PromptingRevision ==
  (Listed("ResolveContext") /\ Len(Matching) > 1)
    => LET sel == Atoi(TrimSpace(ctxStdin))
       IN /\ ctxRet.prompted /\ ctxRet.listed = Matching
          /\ ctxRet.ok => (sel.ok /\ sel.val \in 1..Len(Matching) /\ ctxRet.value = Matching[sel.val])
          /\ (~sel.ok \/ sel.val \notin 1..Len(Matching)) => ~ctxRet.ok

\* ------------------------------------------- target configuration files
MaxFiles == 2

\* the directories ResolveTargetConfig scans, in scan order, and one outside
DirAlif == 1
DirBuildConfig == 2
DirRoot == 3
DirElsewhere == 4

NameA == <<"a","_","c","f","g",".","j","s","o","n">>
NameB == <<"b","_","c","f","g",".","j","s","o","n">>
NameHE == <<"M","5","5","_","H","E","_","c","f","g",".","j","s","o","n">>
NameDev == <<"a","p","p","-","d","e","v","i","c","e","-","c","o","n","f","i","g",".","j","s","o","n">>
NameX == <<"x",".","j","s","o","n">>
DeviceConfigMark == <<"d","e","v","i","c","e","-","c","o","n","f","i","g">>
VcpkgName == <<"v","c","p","k","g","-","c","o","n","f","i","g","u","r","a","t","i","o","n",".","j","s","o","n">>
DotJson == <<".","j","s","o","n">>

CpuHE == <<"M","5","5","_","H","E">>
CpuHP == <<"M","5","5","_","H","P">>
AddrHE == <<"0","x","8","0","0","0","0","0","0","0">>
AddrHP == <<"0","x","8","0","2","0","0","0","0","0">>

Path(d, b) == [dir |-> d, base |-> b]
NoPath == [dir |-> 0, base |-> EmptyStr]

\* the paths a file may exist at
Slots ==
  { Path(DirAlif, NameHE), Path(DirBuildConfig, NameHE), Path(DirRoot, NameA),
    Path(DirRoot, NameB), Path(DirRoot, NameDev), Path(DirElsewhere, NameX) }

\* file contents: a JSON object is a map from top-level key to a map from
\* field name to string value
NoMembers == [k \in {} |-> << >>]
Absent == [kind |-> "absent", members |-> NoMembers]
Unreadable == [kind |-> "unreadable", members |-> NoMembers]
NotJson == [kind |-> "invalid", members |-> NoMembers]
JsonArray == [kind |-> "array", members |-> NoMembers]
JsonNull == [kind |-> "null", members |-> NoMembers]
JsonObject(m) == [kind |-> "object", members |-> m]

ObjHE == JsonObject("USER_APP" :> ("cpu_id" :> CpuHE @@ "mramAddress" :> AddrHE))
ObjHP == JsonObject("HP_APP" :> ("cpu_id" :> CpuHP))
ObjBare == JsonObject("DEVICE" :> ("disabled" :> <<"0">>))
\* two entries with a cpu_id, one of them empty: the map iteration order
\* decides which one GetCPU returns
ObjMixed == JsonObject("A_APP" :> ("cpu_id" :> EmptyStr) @@ "B_APP" :> ("cpu_id" :> CpuHE))

Contents == { Unreadable, NotJson, JsonArray, ObjHE, ObjHP, ObjBare }

\* what a file at p may hold
ContentsAt(p) ==
  IF p.base = NameDev THEN { ObjHE }
  ELSE IF p.dir = DirBuildConfig THEN { NotJson, ObjHE, ObjHP }
  ELSE IF p.dir = DirElsewhere THEN Contents \cup { JsonNull }
  ELSE IF p.base = NameB THEN Contents \cup { ObjMixed }
  ELSE Contents

FileSystems ==
  { fs \in [Slots -> Contents \cup {JsonNull, ObjMixed, Absent}] :
      /\ \A p \in Slots : fs[p] \in ContentsAt(p) \cup {Absent}
      /\ Cardinality({ p \in Slots : fs[p] # Absent }) <= MaxFiles }

\* os.ReadFile
ReadFile(fs, p) == p \in Slots /\ fs[p].kind \notin {"absent", "unreadable"}

\* a decoder that takes any well-formed JSON value
UnmarshalAnyValue(c) == c.kind \in {"object", "null", "array"}

\* json.Unmarshal into a map[string]interface{}: only a JSON object decodes
Unmarshal(c) == c.kind \in {"object", "null"}

\* TargetConfig.GetCPU / GetMRAMAddress: USER_APP first, then the first
\* top-level object carrying the field in map iteration order, which Go
\* leaves unspecified; the set of values the call may return
GetField(tc, field) ==
  IF "USER_APP" \in DOMAIN tc /\ field \in DOMAIN tc["USER_APP"]
  THEN { tc["USER_APP"][field] }
  ELSE LET found == { tc[k][field] : k \in { k \in DOMAIN tc : field \in DOMAIN tc[k] } }
       IN IF found = {} THEN { EmptyStr } ELSE found

GetCPU(tc) == GetField(tc, "cpu_id")
GetMRAMAddress(tc) == GetField(tc, "mramAddress")

\* byte order of the characters that occur in file names
CharOrd == <<"-", ".", "0","1","2","3","4","5","6","7","8","9">> \o Upper \o <<"_">> \o Lower
Ord(c) == CHOOSE i \in 1..Len(CharOrd) : CharOrd[i] = c

RECURSIVE StrLess(_, _)
StrLess(a, b) ==
  IF b = << >> THEN FALSE
  ELSE IF a = << >> THEN TRUE
  ELSE IF a[1] = b[1] THEN StrLess(Tail(a), Tail(b))
  ELSE Ord(a[1]) < Ord(b[1])

RECURSIVE SortNames(_)
SortNames(S) ==
  IF S = {} THEN << >>
  ELSE LET m == CHOOSE x \in S : \A y \in S \ {x} : StrLess(x, y)
       IN <<m>> \o SortNames(S \ {m})

\* filepath.Glob(dir/*.json): the existing names, sorted
Glob(fs, d) ==
  SortNames({ p.base : p \in { q \in Slots : q.dir = d /\ fs[q] # Absent /\ HasSuffix(q.base, DotJson) } })

\* a scan that does not skip the excluded file names
KeepsFileNoExclusion(fs, p) ==
  IF ~ReadFile(fs, p) \/ ~Unmarshal(fs[p]) THEN { FALSE }
  ELSE { a # EmptyStr \/ c # EmptyStr :
           a \in GetMRAMAddress(fs[p].members), c \in GetCPU(fs[p].members) }

\* whether the scan keeps file p; more than one answer only when the map
\* iteration order decides between an empty and a non-empty field
KeepsFile(fs, p) ==
  IF Contains(p.base, DeviceConfigMark) \/ p.base = VcpkgName THEN { FALSE }
  ELSE IF ~ReadFile(fs, p) \/ ~Unmarshal(fs[p]) THEN { FALSE }
  ELSE { a # EmptyStr \/ c # EmptyStr :
           a \in GetMRAMAddress(fs[p].members), c \in GetCPU(fs[p].members) }

RECURSIVE ScanDir(_, _, _, _)
ScanDir(fs, d, names, keep) ==
  IF names = << >> THEN << >>
  ELSE (IF keep[Path(d, Head(names))] THEN << Path(d, Head(names)) >> ELSE << >>)
         \o ScanDir(fs, d, Tail(names), keep)

\* the candidate list built by the scan over .alif, build/config and root
ScanCandidates(fs, keep) ==
  ScanDir(fs, DirAlif, Glob(fs, DirAlif), keep)
    \o ScanDir(fs, DirBuildConfig, Glob(fs, DirBuildConfig), keep)
    \o ScanDir(fs, DirRoot, Glob(fs, DirRoot), keep)

\* the candidates whose file name contains the hint, case-insensitively
HintFilter(cands, hint) ==
  SelectSeqIdx(cands,
               { i \in 1..Len(cands) : Contains(ToLower(cands[i].base), ToLower(hint)) }, 1)

\* a narrowing step that adopts whatever the hint keeps, also nothing
NarrowStrict(cands, hint) ==
  IF Len(cands) > 1 /\ hint # EmptyStr
  THEN HintFilter(cands, hint)
  ELSE cands

\* one narrowing step: a hint that keeps nothing is dropped
Narrow(cands, hint) ==
  IF Len(cands) > 1 /\ hint # EmptyStr /\ Len(HintFilter(cands, hint)) > 0
  THEN HintFilter(cands, hint)
  ELSE cands

\* a prompt that takes an empty line as the first entry
ScanlnDefaultFirst(input) ==
  IF input = EmptyStr \/ Head(input) = "\n" THEN [ok |-> TRUE, val |-> 1]
  ELSE Atoi(TrimSpace(input))

\* fmt.Scanln(&selection): one integer token on the line
ScanlnInt(input) ==
  IF input = EmptyStr \/ Head(input) = "\n" THEN [ok |-> FALSE, val |-> 0]
  ELSE Atoi(TrimSpace(input))

TcNone ==
  [fn |-> "none", ok |-> FALSE, path |-> NoPath, config |-> Absent, err |-> "",
   prompted |-> FALSE, listed |-> << >>, scanned |-> << >>]

\* ResolveTargetConfig; cands is the candidate list of the scan
ResolveTargetConfigResult(fs, explicit, core, proj, input, cands) ==
  LET base == [TcNone EXCEPT !.fn = "ResolveTargetConfig"]
      narrowed == Narrow(Narrow(cands, core), proj)
      sel == ScanlnInt(input)
      loaded(r, p) ==
        IF ~ReadFile(fs, p) THEN [r EXCEPT !.err = "failed to read selected config"]
        ELSE IF ~Unmarshal(fs[p]) THEN [r EXCEPT !.err = "failed to parse selected config"]
        ELSE [r EXCEPT !.ok = TRUE, !.path = p, !.config = fs[p]]
  IN IF explicit # NoPath
     THEN IF ~ReadFile(fs, explicit) THEN [base EXCEPT !.err = "failed to read config file"]
          ELSE IF ~Unmarshal(fs[explicit]) THEN [base EXCEPT !.err = "failed to parse config file"]
          ELSE [base EXCEPT !.ok = TRUE, !.path = explicit, !.config = fs[explicit]]
     ELSE IF Len(cands) = 0
     THEN [base EXCEPT !.err = "no configuration files found in auto-detect paths"]
     ELSE IF Len(narrowed) = 1
     THEN loaded([base EXCEPT !.scanned = cands], narrowed[1])
     ELSE IF ~sel.ok \/ sel.val < 1 \/ sel.val > Len(narrowed)
     THEN [base EXCEPT !.scanned = cands, !.prompted = TRUE, !.listed = narrowed,
                       !.err = "invalid selection"]
     ELSE loaded([base EXCEPT !.scanned = cands, !.prompted = TRUE, !.listed = narrowed],
                 narrowed[sel.val])

CoreHints == { EmptyStr, TgtHE, <<"X","Y","Z">> }
ProjectHints == { EmptyStr, <<"b">> }
ExplicitPaths == { NoPath, Path(DirElsewhere, NameX), Path(DirRoot, NameB) }
SelectionLines == { EmptyStr, <<"1","\n">>, <<"2","\n">> }

ResolveTargetConfig ==
  /\ tcRet.fn = "none"
  /\ \E keep \in [Slots -> BOOLEAN] :
       /\ \A p \in Slots : keep[p] \in KeepsFile(cfgFs, p)
       /\ tcRet' = ResolveTargetConfigResult(cfgFs, explicitPath, coreHint, projectHint,
                                             tcStdin, ScanCandidates(cfgFs, keep))
  /\ UNCHANGED <<cfgFs, explicitPath, coreHint, projectHint, tcStdin>>
  /\ UNCHANGED <<ctxVars, sgVars, jlVars, flVars, syVars, shVars, spVars, stVars, rbVars, snVars, bfVars>>

\* ---- statements about ResolveTargetConfig
AutoDetected == tcRet.fn = "ResolveTargetConfig" /\ explicitPath = NoPath
Explicit == tcRet.fn = "ResolveTargetConfig" /\ explicitPath # NoPath

\* the search root holds exactly a_cfg.json (cpu_id M55_HE) and b_cfg.json
\* (cpu_id M55_HP); the caller passes coreHint "HE" and nothing else
TwoConfigScenario ==
  /\ cfgFs = [p \in Slots |-> IF p = Path(DirRoot, NameA) THEN ObjHE
                              ELSE IF p = Path(DirRoot, NameB) THEN ObjHP
                              ELSE Absent]
  /\ AutoDetected /\ coreHint = TgtHE /\ projectHint = EmptyStr

\* C8 (as stated): in the two-config scenario coreHint "HE" resolves to
\* a_cfg.json without a selection.
C8_HintHEResolvesA ==
  TwoConfigScenario
    => (tcRet.ok /\ tcRet.path = Path(DirRoot, NameA) /\ ~tcRet.prompted)

\* C8 (amended): in the two-config scenario the hint "HE" is compared with
\* the file names and matches neither, so both files are listed, a_cfg.json
\* first, and a file is returned only for a typed number: 1 yields
\* a_cfg.json, 2 yields b_cfg.json, anything else is an error.
C8_HintHENeedsSelection ==
  TwoConfigScenario
    => /\ tcRet.prompted
       /\ tcRet.listed = << Path(DirRoot, NameA), Path(DirRoot, NameB) >>
       /\ tcStdin = <<"1", "\n">> => (tcRet.ok /\ tcRet.path = Path(DirRoot, NameA))
       /\ tcStdin = <<"2", "\n">> => (tcRet.ok /\ tcRet.path = Path(DirRoot, NameB))
       /\ tcStdin \notin { <<"1", "\n">>, <<"2", "\n">> } => ~tcRet.ok

C8_Witness ==
  TwoConfigScenario /\ tcStdin = <<"1","\n">> /\ tcRet.ok /\ tcRet.path = Path(DirRoot, NameA)

FileMatchesHint(p, h) == Contains(ToLower(p.base), ToLower(h))
HintMisses(cands, h) == h # EmptyStr /\ \A i \in 1..Len(cands) : ~FileMatchesHint(cands[i], h)
HintHits(cands, h) ==
  SelectSeqIdx(cands, { i \in 1..Len(cands) : FileMatchesHint(cands[i], h) }, 1)

\* C9: in auto-detection a hint that matches no current candidate is
\* ignored.  With a non-empty scan the result is never "not found" and every
\* failure is a refused selection among a non-empty list; when the core hint
\* misses, the project hint is applied to the whole scan; when the project
\* hint misses what the core hint kept, that set is listed unchanged.
C9_MissingHintIgnored ==
  (AutoDetected /\ Len(tcRet.scanned) > 0)
    => /\ tcRet.err # "no configuration files found in auto-detect paths"
       /\ ~tcRet.ok => (tcRet.prompted /\ Len(tcRet.listed) > 1)
       /\ (Len(tcRet.scanned) > 1 /\ HintMisses(tcRet.scanned, coreHint))
            => IF projectHint = EmptyStr \/ HintMisses(tcRet.scanned, projectHint)
               THEN tcRet.prompted /\ tcRet.listed = tcRet.scanned
               ELSE IF Len(HintHits(tcRet.scanned, projectHint)) = 1
               THEN tcRet.ok /\ ~tcRet.prompted
                      /\ tcRet.path = HintHits(tcRet.scanned, projectHint)[1]
               ELSE tcRet.prompted /\ tcRet.listed = HintHits(tcRet.scanned, projectHint)
       /\ (coreHint # EmptyStr /\ Len(HintHits(tcRet.scanned, coreHint)) > 1
             /\ HintMisses(HintHits(tcRet.scanned, coreHint), projectHint))
            => tcRet.prompted /\ tcRet.listed = HintHits(tcRet.scanned, coreHint)

C9_Witness ==
  /\ AutoDetected /\ Len(tcRet.scanned) = 2
  /\ coreHint = <<"X","Y","Z">> /\ HintMisses(tcRet.scanned, coreHint)
  /\ tcRet.prompted /\ tcRet.listed = tcRet.scanned /\ tcRet.ok

\* C10 (as stated): with an explicit path the call returns that path and
\* its parsed content without prompting, and fails exactly when the file
\* is unreadable or is not valid JSON.
C10_ExplicitFailsIffInvalidJson ==
  Explicit
    => /\ ~tcRet.prompted
       /\ tcRet.ok => (tcRet.path = explicitPath /\ tcRet.config = cfgFs[explicitPath])
       /\ ~tcRet.ok <=> cfgFs[explicitPath].kind \in {"absent", "unreadable", "invalid"}

\* C10 (amended): with an explicit path the call returns that path and its
\* parsed content without prompting, whatever the search root holds and
\* whatever the hints are, and fails exactly when the file is unreadable or
\* its content does not decode into a JSON object: invalid JSON, or a JSON
\* value that is neither an object nor null (an array, for one).
C10_ExplicitFailsIffNotObject ==
  Explicit
    => /\ ~tcRet.prompted
       /\ tcRet.ok => (tcRet.path = explicitPath /\ tcRet.config = cfgFs[explicitPath])
       /\ ~tcRet.ok <=> cfgFs[explicitPath].kind \notin {"object", "null"}

C10_Witness ==
  /\ Explicit /\ explicitPath = Path(DirElsewhere, NameX)
  /\ cfgFs[explicitPath] = ObjBare
  /\ cfgFs[Path(DirRoot, NameA)] = ObjHE
  /\ coreHint = <<"X","Y","Z">>
  /\ tcRet.ok /\ tcRet.path = explicitPath /\ tcRet.config = ObjBare

\* C11: a path that ResolveTargetConfig resolves by auto-detection names a
\* .json file of one of the three scanned directories whose name is not
\* excluded, whose content decodes as a JSON object, and which can yield a
\* non-empty CPU id or a non-empty MRAM address.
C11_ResolvedIsCandidate ==
  (AutoDetected /\ tcRet.ok)
    => LET p == tcRet.path
       IN /\ p \in Slots /\ p.dir \in {DirAlif, DirBuildConfig, DirRoot}
          /\ p.base # EmptyStr /\ cfgFs[p].kind = "object"
          /\ SubSeq(p.base, Len(p.base) - 4, Len(p.base)) = <<".", "j", "s", "o", "n">>
          /\ \A i \in 1..(Len(p.base) - 12) :
               SubSeq(p.base, i, i + 12) # <<"d","e","v","i","c","e","-","c","o","n","f","i","g">>
          /\ p.base # VcpkgName
          /\ \E k \in DOMAIN cfgFs[p].members :
               \E f \in {"cpu_id", "mramAddress"} :
                 f \in DOMAIN cfgFs[p].members[k] /\ cfgFs[p].members[k][f] # EmptyStr

C11_Witness ==
  /\ AutoDetected /\ tcRet.ok /\ ~tcRet.prompted
  /\ cfgFs[Path(DirRoot, NameDev)] = ObjHE
  /\ cfgFs[Path(DirRoot, NameB)] = ObjMixed
  /\ tcRet.path = Path(DirRoot, NameB)

Ports == { <<"u","s","b","m","o","d","e","m","1">>, <<"u","s","b","m","o","d","e","m","2">> }
DeviceIds == { "E7", "E3" }

\* ------------------------------------------------ serial port selection

\* at most this many enumerated ports
MaxPorts == 3

PortModem == <<"u","s","b","m","o","d","e","m","1">>
PortJLink == <<"J","L","i","n","k","2">>
PortTtyA  == <<"t","t","y","S","0">>
PortTtyB  == <<"t","t","y","S","1">>
PortNames == { PortModem, PortJLink, PortTtyA, PortTtyB }

\* enumerator.GetDetailedPortsList(): port lists without repetition
PortLists ==
  { l \in UNION { [1..n -> PortNames] : n \in 0..MaxPorts } :
      \A i, j \in 1..Len(l) : i # j => l[i] # l[j] }

\* the naming patterns of debug adapters
IsDebugPort(p) ==
  LET name == ToLower(p)
  IN \/ Contains(name, <<"u","s","b","m","o","d","e","m">>)
     \/ Contains(name, <<"j","l","i","n","k">>)
     \/ Contains(name, <<"m","b","e","d">>)

DebugPorts(ports) == SelectSeqIdx(ports, { i \in 1..Len(ports) : IsDebugPort(ports[i]) }, 1)

SpNone ==
  [fn |-> "none", ok |-> FALSE, port |-> EmptyStr, err |-> "",
   prompted |-> FALSE, shown |-> << >>]

\* Flasher.SelectPort; shown[n] is the port printed under number n
SelectPortResult(listOk, ports, input) ==
  LET base == [SpNone EXCEPT !.fn = "SelectPort"]
      matching == DebugPorts(ports)
      candidates == IF Len(matching) = 0 THEN ports ELSE matching
      selection == Atoi(TrimSpace(input))
  IN IF ~listOk THEN [base EXCEPT !.err = "failed to list ports"]
     ELSE IF Len(ports) = 0 THEN [base EXCEPT !.err = "no serial ports found"]
     ELSE IF Len(candidates) = 1
          THEN [base EXCEPT !.ok = TRUE, !.port = candidates[1]]
     ELSE IF ~selection.ok \/ selection.val < 1 \/ selection.val > Len(candidates)
          THEN [base EXCEPT !.prompted = TRUE, !.shown = candidates, !.err = "invalid selection"]
     ELSE [base EXCEPT !.prompted = TRUE, !.shown = candidates, !.ok = TRUE,
                       !.port = candidates[selection.val]]

\* Flasher.SelectPort of internal/flasher/flasher.go: every port is printed
\* under its position in the enumeration, the selection indexes the matches
SelectPortListedResult(listOk, ports, input) ==
  LET base == [SpNone EXCEPT !.fn = "SelectPortListed"]
      candidates == DebugPorts(ports)
      selected == ScanlnInt(input)
  IN IF ~listOk THEN [base EXCEPT !.err = "failed to list ports"]
     ELSE IF Len(ports) = 0 THEN [base EXCEPT !.err = "no serial ports found"]
     ELSE IF Len(candidates) = 1
          THEN [base EXCEPT !.shown = ports, !.ok = TRUE, !.port = candidates[1]]
     ELSE IF ~selected.ok \/ selected.val < 1 \/ selected.val > Len(candidates)
          THEN [base EXCEPT !.prompted = TRUE, !.shown = ports, !.err = "invalid selection"]
     ELSE [base EXCEPT !.prompted = TRUE, !.shown = ports, !.ok = TRUE,
                       !.port = candidates[selected.val]]

SelectPort ==
  /\ spRet.fn = "none"
  /\ \E listOk \in BOOLEAN : spRet' = SelectPortResult(listOk, spPorts, spStdin)
  /\ UNCHANGED <<spPorts, spStdin>>
  /\ UNCHANGED <<ctxVars, tcVars, sgVars, jlVars, flVars, syVars, shVars, stVars, rbVars, snVars, bfVars>>

SelectPortListed ==
  /\ spRet.fn = "none"
  /\ \E listOk \in BOOLEAN : spRet' = SelectPortListedResult(listOk, spPorts, spStdin)
  /\ UNCHANGED <<spPorts, spStdin>>
  /\ UNCHANGED <<ctxVars, tcVars, sgVars, jlVars, flVars, syVars, shVars, stVars, rbVars, snVars, bfVars>>

\* the number the user typed, 0 when the line is not a number
TypedNumber == LET n == Atoi(TrimSpace(spStdin)) IN IF n.ok THEN n.val ELSE 0

\* C17: SelectPort returns a port without prompting exactly when one
\* enumerated port matches the debug-adapter patterns; with no match the
\* whole list is offered and a selection is required, with several matches
\* the matching ports are offered and a selection is required; the port
\* returned after a prompt is the one shown under the typed number; an empty
\* list or an invalid selection is an error.
C17_SelectPortContract ==
  (spRet.fn # "none" /\ spRet.err # "failed to list ports")
    => LET matches == Len(DebugPorts(spPorts))
       IN /\ (spRet.ok /\ ~spRet.prompted) <=> matches = 1
          /\ (matches = 0 /\ Len(spPorts) > 0) => spRet.prompted /\ spRet.shown = spPorts
          /\ matches > 1 => spRet.prompted /\ spRet.shown = DebugPorts(spPorts)
          /\ (spRet.ok /\ spRet.prompted)
               => TypedNumber \in DOMAIN spRet.shown /\ spRet.port = spRet.shown[TypedNumber]
          /\ Len(spPorts) = 0 => ~spRet.ok
          /\ (spRet.prompted /\ TypedNumber \notin DOMAIN spRet.shown) => ~spRet.ok

\* what part_007's SelectPort guarantees: the candidates are the matching
\* ports, or all ports when none matches; a single candidate is returned
\* without a prompt, otherwise the port under the typed number is returned
C17_SelectPortFallback ==
  (spRet.fn = "SelectPort" /\ spRet.err # "failed to list ports")
    => LET matching == DebugPorts(spPorts)
           candidates == IF Len(matching) = 0 THEN spPorts ELSE matching
       IN /\ (spRet.ok /\ ~spRet.prompted) <=> Len(candidates) = 1
          /\ Len(candidates) > 1 => spRet.prompted /\ spRet.shown = candidates
          /\ (spRet.ok /\ spRet.prompted)
               => TypedNumber \in DOMAIN spRet.shown /\ spRet.port = spRet.shown[TypedNumber]
          /\ spRet.ok => \E i \in DOMAIN spPorts : spPorts[i] = spRet.port
          /\ Len(spPorts) = 0 => ~spRet.ok
          /\ (spRet.prompted /\ TypedNumber \notin DOMAIN spRet.shown) => ~spRet.ok

\* ------------------------------------------------ toolkit synchronisation
\* at most this many calls of SyncToolkitConfig in a row
MaxSyncCalls == 2

PartLS == <<"A","E","7","L","S">>
PartAS == <<"A","E","7","A","S">>
PartPrefix == <<"A","E","7">>

\* targetID: empty, a part number with a core suffix, a prefix shared by two
\* part numbers, a bare core name
TargetIds == { EmptyStr, PartLS \o <<":">> \o CpuHE, PartPrefix, CpuHE }

\* devicesDB.db: its part-number keys; every device has the same featureSet
DevDbs ==
  { [kind |-> k, keys |-> {}] : k \in {"unreadable", "invalid"} }
    \cup { [kind |-> "ok", keys |-> K] : K \in SUBSET {PartLS, PartAS} }

\* an element of "revisions" that is not a JSON string
RevNonString == "<number>"

\* featuresDB.db: the "revisions" list of the devices' featureSet
FeatDbs ==
  { [kind |-> k, revs |-> << >>] : k \in {"unreadable", "invalid", "noentry"} }
    \cup { [kind |-> "ok", revs |-> r] :
             r \in { << >>, <<"A0">>, <<"B0", "A0">>, <<"B0", RevNonString>>, <<"B0", "">> } }

\* a JSON value of global-cfg.db
JsonStr(text) == [type |-> "string", text |-> text]
JsonNum(text) == [type |-> "number", text |-> text]

\* an integer above 2^53, and the text of the float64 nearest to it
BigInt == "9007199254740993"
BigIntRounded == "9007199254740992"

\* json.Unmarshal into interface{} and json.MarshalIndent of the result: a
\* string comes back as it was, a number as the text of its float64
Float64Text(text) == IF text = BigInt THEN BigIntRounded ELSE text
ReEncode(val) == IF val.type = "number" THEN JsonNum(Float64Text(val.text)) ELSE val

ReEncodeAll(entries) == { [e EXCEPT !.val = ReEncode(e.val)] : e \in entries }

\* the keys of global-cfg.db other than DEVICE."Part#" and DEVICE.Revision
OtherEntries ==
  { {},
    { [section |-> "DEVICE", key |-> "Family", val |-> JsonStr("Ensemble")],
      [section |-> "MRAM-BURNER", key |-> "Interface", val |-> JsonStr("isp")],
      [section |-> "MRAM-BURNER", key |-> "Baudrate", val |-> JsonNum("115200")] },
    { [section |-> "MRAM-BURNER", key |-> "Serial", val |-> JsonNum(BigInt)] } }

\* global-cfg.db: DEVICE."Part#" and DEVICE.Revision; an absent entry and an
\* empty string behave alike in every comparison made
GlobalCfgs ==
  { [kind |-> k, part |-> EmptyStr, rev |-> "", other |-> {}] : k \in {"unreadable", "invalid"} }
    \cup { [kind |-> "ok", part |-> p, rev |-> r, other |-> o] :
             p \in {EmptyStr, PartLS, PartAS}, r \in {"", "A0", "B0"}, o \in OtherEntries }

\* the keys of devicesDB that contain the identifier: the loop takes the
\* first one in map iteration order, which Go leaves unspecified
MatchingParts(dev, target) == { k \in dev.keys : Contains(k, Split(target, ":")[1]) }

\* the revision loop: "panic" when r.(string) meets a non-string element;
\* validRev == "" after the loop (no match, or the matched revision is the
\* empty string) selects revs[0]
RECURSIVE FindRev(_, _, _)
FindRev(revs, cur, i) ==
  IF i > Len(revs) THEN (IF revs[1] = RevNonString THEN "panic" ELSE revs[1])
  ELSE IF revs[i] = RevNonString THEN "panic"
  ELSE IF revs[i] = cur
  THEN (IF cur # "" THEN cur ELSE IF revs[1] = RevNonString THEN "panic" ELSE revs[1])
  ELSE FindRev(revs, cur, i + 1)

\* validRev == "" at the end selects the default
ValidRev(feat, cur) ==
  IF feat.kind = "ok" /\ Len(feat.revs) > 0
  THEN (IF FindRev(feat.revs, cur, 1) = "" THEN "A0" ELSE FindRev(feat.revs, cur, 1))
  ELSE "A0"

WriteOutcomes == { "ok", "untouched", "truncated" }

\* SyncToolkitConfig(alifToolsPath, targetID); pick is the matching key the
\* loop stopped at, outcome the fate of os.WriteFile
SyncToolkitConfigResult(tools, target, dev, feat, glob, pick, outcome) ==
  LET r == [ret |-> "nil", wrote |-> FALSE, part |-> EmptyStr, glob |-> glob]
  IN IF ~tools \/ target = EmptyStr THEN r
     ELSE IF dev.kind = "unreadable" THEN [r EXCEPT !.ret = "failed to read devices database"]
     ELSE IF dev.kind = "invalid" THEN [r EXCEPT !.ret = "failed to parse devices database"]
     ELSE IF MatchingParts(dev, target) = {} THEN r
     ELSE IF glob.kind = "unreadable"
     THEN [r EXCEPT !.ret = "failed to read toolkit global config", !.part = pick]
     ELSE IF glob.kind = "invalid"
     THEN [r EXCEPT !.ret = "failed to parse toolkit global config", !.part = pick]
     ELSE LET validRev == ValidRev(feat, glob.rev)
          IN IF validRev = "panic" THEN [r EXCEPT !.ret = "panic", !.part = pick]
             ELSE IF glob.part = pick /\ glob.rev = validRev THEN [r EXCEPT !.part = pick]
             ELSE IF outcome = "ok"
             THEN [r EXCEPT !.wrote = TRUE, !.part = pick,
                            !.glob = [kind |-> "ok", part |-> pick, rev |-> validRev,
                                      other |-> ReEncodeAll(glob.other)]]
             ELSE [r EXCEPT !.ret = "write failed", !.wrote = TRUE, !.part = pick,
                            !.glob = IF outcome = "truncated"
                                     THEN [kind |-> "invalid", part |-> EmptyStr, rev |-> "", other |-> {}]
                                     ELSE glob]

SyncToolkitConfig ==
  /\ Len(syLog) < MaxSyncCalls
  /\ \E pick \in MatchingParts(syDev, syTarget) \cup {EmptyStr}, outcome \in WriteOutcomes :
       /\ pick = EmptyStr <=> (syDev.kind # "ok" \/ MatchingParts(syDev, syTarget) = {})
       /\ LET r == SyncToolkitConfigResult(syTools, syTarget, syDev, syFeat, syGlob, pick, outcome)
          IN /\ syLog' = Append(syLog, r)
             /\ syGlob' = r.glob
  /\ UNCHANGED <<syTools, syTarget, syDev, syFeat>>
  /\ UNCHANGED <<ctxVars, tcVars, sgVars, jlVars, flVars, shVars, spVars, stVars, rbVars, snVars, bfVars>>

\* C12: a call of SyncToolkitConfig that directly follows a successful call
\* with the same target identifier performs no write and leaves
\* global-cfg.db as it was.
C12_SyncIdempotent ==
  \A i \in 1..(Len(syLog) - 1) :
    syLog[i].ret = "nil" => (~syLog[i + 1].wrote /\ syLog[i + 1].glob = syLog[i].glob)

\* the same statement for identifiers that at most one part number contains
C12_UniquePartIdempotent ==
  Cardinality(MatchingParts(syDev, syTarget)) <= 1 => C12_SyncIdempotent

\* ------------------------------------------- binary field of the signing config
\* at most this many SignArtifact runs read the same configuration file
MaxLookups == 2

\* top-level keys of the configuration
CfgKeys == { "DEVICE", "USER_APP", "HE_APP", "HP_APP" }

\* an entry: whether the key is there (as an object), whether it carries
\* mramAddress, and its "binary": "none" when absent or not a string
NoEntry == [present |-> FALSE, mram |-> FALSE, binary |-> "none"]
EntriesOf(k) ==
  { NoEntry } \cup
  { [present |-> TRUE, mram |-> m, binary |-> b] :
      m \in BOOLEAN, b \in { "none", "", IF k = "USER_APP" THEN "user.bin"
                                         ELSE IF k = "HE_APP" THEN "he.bin" ELSE "hp.bin" } }

SigningConfigs ==
  { c \in [CfgKeys -> UNION { EntriesOf(k) : k \in CfgKeys } \cup
                        { [present |-> TRUE, mram |-> TRUE, binary |-> "device.bin"] }] :
      /\ c["DEVICE"] = [present |-> TRUE, mram |-> TRUE, binary |-> "device.bin"]
      /\ \A k \in CfgKeys \ {"DEVICE"} : c[k] \in EntriesOf(k) }

\* the entries at which "for k, v := range cfg" can stop: not DEVICE, with
\* mramAddress and a string "binary"; Go leaves the order of the keys open
BinaryCandidates(cfg) ==
  { k \in CfgKeys \ {"DEVICE"} : cfg[k].present /\ cfg[k].mram /\ cfg[k].binary # "none" }

\* SignArtifact step 2: USER_APP's binary, else that of the entry the loop
\* stopped at (pick); "" is "could not find application binary field"
binaryPathInConfig(cfg, pick) ==
  IF cfg["USER_APP"].present /\ cfg["USER_APP"].binary \notin {"none", ""}
  THEN cfg["USER_APP"].binary
  ELSE IF BinaryCandidates(cfg) = {} THEN "" ELSE cfg[pick].binary

\* one run's lookup of the binary field
LookupBinaryField ==
  /\ Len(bfLog) < MaxLookups
  /\ \E pick \in BinaryCandidates(bfCfg) \cup {"none"} :
       /\ pick = "none" <=> BinaryCandidates(bfCfg) = {}
       /\ bfLog' = Append(bfLog, binaryPathInConfig(bfCfg, pick))
  /\ UNCHANGED bfCfg
  /\ UNCHANGED <<ctxVars, tcVars, sgVars, jlVars, flVars, syVars, shVars, spVars, stVars, rbVars, snVars>>

\* ------------------------------------------------ files of a signing run
\* at most this many file operations fail in one run
MaxFaults == 1

\* toolkit-relative files: rootDst is <toolkit>/<binary field>, imagesDst
\* is <toolkit>/build/images/<binary field>
TkNames ==
  { "rootDst", "rootDst.sign", "rootDst.crt", "imagesDst", "staged_config.json",
    "build/app-package-map.txt", "build/AppTocPackage.bin",
    "build/AppTocPackage.bin.sign", "build/AppTocPackage.bin.crt",
    "build/images/alif-img.bin", "build/images/alif-img.bin.sign",
    "build/images/alif-img.bin.crt",
    "AppTocPackage.bin", "AppTocPackage.bin.sign", "AppTocPackage.bin.crt" }

\* files of the caller's build directory
BdNames ==
  { "app-package-map.txt", "AppTocPackage.bin", "AppTocPackage.bin.sign",
    "AppTocPackage.bin.crt", "alif-img.bin.sign", "alif-img.bin.crt", "alif-img.bin" }

\* the retrieval table of SignArtifact, in its order
artifacts ==
  << [src |-> "build/app-package-map.txt", dst |-> "app-package-map.txt"],
     [src |-> "build/AppTocPackage.bin", dst |-> "AppTocPackage.bin"],
     [src |-> "build/AppTocPackage.bin.sign", dst |-> "AppTocPackage.bin.sign"],
     [src |-> "build/AppTocPackage.bin.crt", dst |-> "AppTocPackage.bin.crt"],
     [src |-> "rootDst.sign", dst |-> "alif-img.bin.sign"],
     [src |-> "rootDst.crt", dst |-> "alif-img.bin.crt"],
     [src |-> "rootDst", dst |-> "alif-img.bin"] >>

\* file contents: "none" is no file, "partial" a truncated copy, "stale" a
\* file left by an earlier run, "new" an output of this run's app-gen-toc
FileStates == { "none", "bin", "cfg", "new", "stale", "partial" }

\* copyFile(src, dst): how the copy ends.  "nocreate": os.Open or os.Create
\* fails and dst is untouched; "partial": io.Copy fails after os.Create
\* truncated dst
CopyOutcomes == { "ok", "nocreate", "partial" }

copyFile(outcome, srcContent, dstContent) ==
  CASE outcome = "ok" -> srcContent
    [] outcome = "nocreate" -> dstContent
    [] OTHER -> "partial"

\* what a successful app-gen-toc run writes into the toolkit
ToolProfiles ==
  { {},
    { "build/AppTocPackage.bin", "build/app-package-map.txt" },
    { "build/AppTocPackage.bin", "build/app-package-map.txt",
      "build/AppTocPackage.bin.sign", "build/AppTocPackage.bin.crt",
      "rootDst.sign", "rootDst.crt" } }

SgNoRet == [state |-> "none", err |-> ""]
SyncNotRun == [run |-> FALSE, err |-> FALSE, established |-> FALSE]
SgNoEnv == [crossDevice |-> FALSE, produced |-> {}, toolExit |-> "notrun", sync |-> SyncNotRun]

\* a return of SignArtifact: the deferred os.Remove runs if it was registered
SignReturn(state, err, tkNow) ==
  /\ sgPc' = "done"
  /\ sgRet' = [state |-> state, err |-> err]
  /\ tk' = IF sgDefer THEN [tkNow EXCEPT !["staged_config.json"] = "none"] ELSE tkNow
  /\ sgIdx' = 0

\* the outcomes a copy may have with the faults left
CopyChoices == IF faults < MaxFaults THEN CopyOutcomes ELSE { "ok" }
Fault(outcome) == IF outcome = "ok" THEN faults ELSE faults + 1

\* entry: toolkit and build directory are on the same file system or not
SignArtifactCall ==
  /\ sgPc = "idle"
  /\ flPc \in {"idle", "sign"}
  /\ rbPc \in {"idle", "sign"}
  /\ sgPc' = "resolve"
  /\ \E x \in BOOLEAN : sgEnv' = [SgNoEnv EXCEPT !.crossDevice = x]
  /\ UNCHANGED <<tk, bd, sgIdx, sgDefer, sgRet, faults, warned>>
  /\ UNCHANGED <<ctxVars, tcVars, jlVars, flVars, syVars, shVars, spVars, stVars, rbVars, snVars, bfVars>>

\* at most this many runs of SignArtifact in a row
MaxSignRuns == 2

\* the caller runs SignArtifact again on the same binary and configuration
SignArtifactAgain ==
  /\ sgPc = "done" /\ flPc = "idle"
  /\ sgRuns + 1 < MaxSignRuns
  /\ sgRuns' = sgRuns + 1
  /\ sgPrev' = [tk |-> tk, bd |-> bd, ret |-> sgRet, env |-> sgEnv]
  /\ sgPc' = "resolve" /\ sgIdx' = 0 /\ sgDefer' = FALSE /\ sgRet' = SgNoRet
  /\ \E x \in BOOLEAN : sgEnv' = [SgNoEnv EXCEPT !.crossDevice = x]
  /\ UNCHANGED <<tk, bd, faults, warned>>
  /\ UNCHANGED <<ctxVars, tcVars, jlVars, flVars, syVars, spVars, stVars, rbVars, snVars, bfVars>>

\* targets.ResolveTargetConfig(configPathOverride, projectDir, coreHint, projectHint)
SignResolveConfig ==
  /\ sgPc = "resolve"
  /\ \/ /\ SignReturn("err", "failed to resolve signing config", tk)
        /\ UNCHANGED <<bd, sgDefer, sgEnv, faults, warned>>
     \/ /\ sgPc' = "sync"
        /\ UNCHANGED <<tk, bd, sgIdx, sgDefer, sgRet, sgEnv, faults, warned>>
  /\ UNCHANGED <<ctxVars, tcVars, jlVars, flVars, syVars, shVars, spVars, stVars, rbVars, snVars, bfVars>>

\* what a call of SyncToolkitConfig amounts to for its caller: whether it
\* returned an error, and whether it resolved the part and left it stored
SyncClass(r) ==
  [run |-> TRUE, err |-> r.ret # "nil", established |-> r.ret = "nil" /\ r.part # EmptyStr]

\* the outcomes of SyncToolkitConfig(s.Cfg.AlifToolsPath, resolvedCfg.GetCPU())
\* over the toolkit databases (revision lists made of strings)
SyncClasses ==
  { SyncClass(SyncToolkitConfigResult(TRUE, i[1], i[2], i[3], i[4], i[5], i[6])) :
      i \in { j \in TargetIds \X DevDbs \X FeatDbs \X GlobalCfgs
                      \X {EmptyStr, PartLS, PartAS} \X WriteOutcomes :
                /\ \A k \in 1..Len(j[3].revs) : j[3].revs[k] # RevNonString
                /\ IF j[2].kind = "ok" /\ MatchingParts(j[2], j[1]) # {}
                   THEN j[5] \in MatchingParts(j[2], j[1])
                   ELSE j[5] = EmptyStr } }

\* targets.SyncToolkitConfig: an error is printed as a warning, signing goes on
SignSyncToolkit ==
  /\ sgPc = "sync"
  /\ sgPc' = "config"
  /\ \E c \in SyncClasses :
       /\ sgEnv' = [sgEnv EXCEPT !.sync = c]
       /\ warned' = IF c.err THEN warned \cup {"Toolkit sync failed"} ELSE warned
  /\ UNCHANGED <<tk, bd, sgIdx, sgDefer, sgRet, faults>>
  /\ UNCHANGED <<ctxVars, tcVars, jlVars, flVars, syVars, shVars, spVars, stVars, rbVars, snVars, bfVars>>

\* reading the config again and looking up its "binary" field
SignFindBinaryField ==
  /\ sgPc = "config"
  /\ \/ /\ SignReturn("err", "could not find application binary field in config", tk)
        /\ UNCHANGED <<bd, sgDefer, sgEnv, faults, warned>>
     \/ /\ sgPc' = "stageRoot"
        /\ UNCHANGED <<tk, bd, sgIdx, sgDefer, sgRet, sgEnv, faults, warned>>
  /\ UNCHANGED <<ctxVars, tcVars, jlVars, flVars, syVars, shVars, spVars, stVars, rbVars, snVars, bfVars>>

\* a staging step that goes on whatever the copy to the toolkit root returned
SignStageRootLenient ==
  /\ sgPc = "stageRoot"
  /\ \E o \in CopyChoices :
       /\ faults' = Fault(o)
       /\ tk' = [tk EXCEPT !["rootDst"] = copyFile(o, "bin", "none")]
       /\ sgPc' = "stageImages"
       /\ UNCHANGED <<sgIdx, sgRet>>
  /\ UNCHANGED <<bd, sgDefer, sgEnv, warned>>
  /\ UNCHANGED <<ctxVars, tcVars, jlVars, flVars, syVars, shVars, spVars, stVars, rbVars, snVars, bfVars>>

\* os.Remove(rootDst); copyFile(binaryPath, rootDst)
SignStageRoot ==
  /\ sgPc = "stageRoot"
  /\ \E o \in CopyChoices :
       LET t == [tk EXCEPT !["rootDst"] = copyFile(o, "bin", "none")]
       IN /\ faults' = Fault(o)
          /\ IF o = "ok"
             THEN /\ sgPc' = "stageImages" /\ tk' = t
                  /\ UNCHANGED <<sgIdx, sgRet>>
             ELSE SignReturn("err", "failed to copy binary to root", t)
  /\ UNCHANGED <<bd, sgDefer, sgEnv, warned>>
  /\ UNCHANGED <<ctxVars, tcVars, jlVars, flVars, syVars, shVars, spVars, stVars, rbVars, snVars, bfVars>>

\* a staging step that refuses to replace an existing build/images copy
SignStageImagesExclusive ==
  /\ sgPc = "stageImages"
  /\ IF tk["imagesDst"] # "none"
     THEN /\ SignReturn("err", "failed to copy binary to build/images", tk)
          /\ UNCHANGED faults
     ELSE /\ tk' = [tk EXCEPT !["imagesDst"] = "bin"]
          /\ sgPc' = "stageConfig"
          /\ UNCHANGED <<sgIdx, sgRet, faults>>
  /\ UNCHANGED <<bd, sgDefer, sgEnv, warned>>
  /\ UNCHANGED <<ctxVars, tcVars, jlVars, flVars, syVars, shVars, spVars, stVars, rbVars, snVars, bfVars>>

\* os.Remove(imagesDst); copyFile(binaryPath, imagesDst)
SignStageImages ==
  /\ sgPc = "stageImages"
  /\ \E o \in CopyChoices :
       LET t == [tk EXCEPT !["imagesDst"] = copyFile(o, "bin", "none")]
       IN /\ faults' = Fault(o)
          /\ IF o = "ok"
             THEN /\ sgPc' = "stageConfig" /\ tk' = t
                  /\ UNCHANGED <<sgIdx, sgRet>>
             ELSE SignReturn("err", "failed to copy binary to build/images", t)
  /\ UNCHANGED <<bd, sgDefer, sgEnv, warned>>
  /\ UNCHANGED <<ctxVars, tcVars, jlVars, flVars, syVars, shVars, spVars, stVars, rbVars, snVars, bfVars>>

\* copyFile(srcCfg, stagedCfgPath); the removal is deferred only after the
\* copy has succeeded
SignStageConfig ==
  /\ sgPc = "stageConfig"
  /\ \E o \in CopyChoices :
       LET t == [tk EXCEPT !["staged_config.json"] = copyFile(o, "cfg", @)]
       IN /\ faults' = Fault(o)
          /\ IF o = "ok"
             THEN /\ sgPc' = "tool" /\ tk' = t /\ sgDefer' = TRUE
                  /\ UNCHANGED <<sgIdx, sgRet>>
             ELSE /\ SignReturn("err", "failed to stage config file", t)
                  /\ UNCHANGED sgDefer
  /\ UNCHANGED <<bd, sgEnv, warned>>
  /\ UNCHANGED <<ctxVars, tcVars, jlVars, flVars, syVars, shVars, spVars, stVars, rbVars, snVars, bfVars>>

\* app-gen-toc -f staged_config.json -o build/AppTocPackage.bin
SignRunTool ==
  /\ sgPc = "tool"
  /\ \/ /\ sgEnv' = [sgEnv EXCEPT !.toolExit = "nonzero"]
        /\ SignReturn("err", "app-gen-toc failed", tk)
     \/ \E prof \in ToolProfiles :
          /\ sgEnv' = [sgEnv EXCEPT !.toolExit = "zero", !.produced = prof]
          /\ tk' = [n \in TkNames |-> IF n \in prof THEN "new" ELSE tk[n]]
          /\ sgPc' = "retrieve" /\ sgIdx' = 1
          /\ UNCHANGED sgRet
  /\ UNCHANGED <<bd, sgDefer, faults, warned>>
  /\ UNCHANGED <<ctxVars, tcVars, jlVars, flVars, syVars, shVars, spVars, stVars, rbVars, snVars, bfVars>>

\* one pass of the retrieval loop: os.Stat(src); os.Remove(dst);
\* os.Rename(src, dst), else copyFile(src, dst) and os.Remove(src)
SignRetrieve ==
  /\ sgPc = "retrieve" /\ sgIdx \in 1..Len(artifacts)
  /\ LET a == artifacts[sgIdx]
     IN IF tk[a.src] = "none"
        THEN UNCHANGED <<tk, bd, faults>>
        ELSE IF ~sgEnv.crossDevice
        THEN /\ bd' = [bd EXCEPT ![a.dst] = tk[a.src]]
             /\ tk' = [tk EXCEPT ![a.src] = "none"]
             /\ UNCHANGED faults
        ELSE \E o \in CopyChoices :
               /\ bd' = [bd EXCEPT ![a.dst] = copyFile(o, tk[a.src], "none")]
               /\ tk' = [tk EXCEPT ![a.src] = "none"]
               /\ faults' = Fault(o)
  /\ sgIdx' = sgIdx + 1
  /\ UNCHANGED <<sgPc, sgDefer, sgRet, sgEnv, warned>>
  /\ UNCHANGED <<ctxVars, tcVars, jlVars, flVars, syVars, shVars, spVars, stVars, rbVars, snVars, bfVars>>

\* return finalToc, nil
SignArtifactReturn ==
  /\ sgPc = "retrieve" /\ sgIdx = Len(artifacts) + 1
  /\ SignReturn("ok", "", tk)
  /\ UNCHANGED <<bd, sgDefer, sgEnv, faults, warned>>
  /\ UNCHANGED <<ctxVars, tcVars, jlVars, flVars, syVars, shVars, spVars, stVars, rbVars, snVars, bfVars>>

SignStep ==
  \/ SignArtifactCall \/ SignResolveConfig \/ SignSyncToolkit \/ SignFindBinaryField
  \/ SignStageRoot \/ SignStageImages \/ SignStageConfig \/ SignRunTool
  \/ SignRetrieve \/ SignArtifactReturn

\* ------------------------------------------------- package map parsing
MaxMapLines == 2

ImgName == <<"a","l","i","f","-","i","m","g",".","b","i","n">>
TocMarker == <<"A","P","P"," ","P","a","c","k","a","g","e"," ","S","t","a","r","t"," ","A","d","d","r","e","s","s",":">>
LineImg == <<"0","x","8","0","0","0","0","0","0","0"," "," ","a","l","i","f","-","i","m","g",".","b","i","n"," "," ","0","x","1","0","0","0">>
LineToc == <<"A","P","P"," ","P","a","c","k","a","g","e"," ","S","t","a","r","t"," ","A","d","d","r","e","s","s",":"," ","0","x","8","0","5","7","f","0","f","0">>
LineTocLabelled == <<"T","O","C",":"," ","A","P","P"," ","P","a","c","k","a","g","e"," ","S","t","a","r","t"," ","A","d","d","r","e","s","s",":"," ","0","x","8","0","5","7","f","0","f","0">>
LineOther == <<"M","R","A","M"," ","m","a","p">>
AddrToc == <<"0","x","8","0","5","7","f","0","f","0">>

\* lines a package map may hold: the two address lines, the TOC line behind
\* a label, the image name alone, the marker without an address, an
\* unrelated line
MapLineUniverse == { LineImg, LineToc, LineTocLabelled, ImgName, TocMarker, LineOther }

MapTexts == UNION { [1..n -> MapLineUniverse] : n \in 0..MaxMapLines }

\* the text read from a map file in the given state (a truncated copy has
\* lost its last line)
MapTextOf(state, text) ==
  IF state = "partial" THEN SubSeq(text, 1, Len(text) - 1) ELSE text

\* the map file both resolvers read: the build directory's if it exists,
\* else the toolkit's; "none" if that one cannot be read
MapPathState(bdState, tkState) == IF bdState # "none" THEN bdState ELSE tkState

RECURSIVE ScanBinaryAddress(_)
ScanBinaryAddress(lines) ==
  IF lines = << >> THEN [ok |-> FALSE, addr |-> EmptyStr]
  ELSE IF Contains(Head(lines), ImgName) /\ Len(Fields(Head(lines))) > 1
  THEN [ok |-> TRUE, addr |-> Fields(Head(lines))[1]]
  ELSE ScanBinaryAddress(Tail(lines))

\* Flasher.resolveBinaryAddress
resolveBinaryAddress(bdState, tkState, text) ==
  IF MapPathState(bdState, tkState) = "none"
  THEN [ok |-> FALSE, addr |-> EmptyStr, err |-> "could not find package map file"]
  ELSE LET r == ScanBinaryAddress(MapTextOf(MapPathState(bdState, tkState), text))
       IN [ok |-> r.ok, addr |-> r.addr,
           err |-> IF r.ok THEN "" ELSE "failed to extract binary MRAM address from package map"]

RECURSIVE ScanTOCAddress(_)
ScanTOCAddress(lines) ==
  IF lines = << >> THEN [ok |-> FALSE, addr |-> EmptyStr]
  ELSE IF /\ Contains(Head(lines), TocMarker)
          /\ Len(Split(Head(lines), ":")) > 1
          /\ TrimSpace(Split(Head(lines), ":")[2]) # EmptyStr
  THEN [ok |-> TRUE, addr |-> TrimSpace(Split(Head(lines), ":")[2])]
  ELSE ScanTOCAddress(Tail(lines))

\* Flasher.resolveTOCAddress
resolveTOCAddress(bdState, tkState, text) ==
  IF MapPathState(bdState, tkState) = "none"
  THEN [ok |-> FALSE, addr |-> EmptyStr, err |-> "could not find package map file"]
  ELSE LET r == ScanTOCAddress(MapTextOf(MapPathState(bdState, tkState), text))
       IN [ok |-> r.ok, addr |-> r.addr,
           err |-> IF r.ok THEN "" ELSE "failed to extract TOC address from package map"]

JlNone ==
  [fn |-> "none", ok |-> FALSE, err |-> "", script |-> FALSE,
   mramAddr |-> EmptyStr, tocAddr |-> EmptyStr, jlink |-> FALSE]

\* Flasher.flashViaJLink: addresses from the map, then the script, then JLinkExe
flashViaJLinkResult(bdState, tkState, text, writeOk, jlinkOk) ==
  LET base == [JlNone EXCEPT !.fn = "flashViaJLink"]
      mram == resolveBinaryAddress(bdState, tkState, text)
      toc  == resolveTOCAddress(bdState, tkState, text)
  IN IF ~mram.ok THEN [base EXCEPT !.err = mram.err]
     ELSE IF ~toc.ok THEN [base EXCEPT !.err = toc.err]
     ELSE IF ~writeOk THEN [base EXCEPT !.err = "failed to create J-Link script"]
     ELSE [base EXCEPT !.script = TRUE, !.mramAddr = mram.addr, !.tocAddr = toc.addr,
                       !.jlink = TRUE, !.ok = jlinkOk,
                       !.err = IF jlinkOk THEN "" ELSE "J-Link flash failed"]

\* Flasher.flashViaJLink of internal/flasher/flasher.go: fixed addresses
flashViaJLinkFixedResult(bdState, tkState, text, writeOk, jlinkOk) ==
  LET base == [JlNone EXCEPT !.fn = "flashViaJLinkFixed"]
  IN IF ~writeOk THEN [base EXCEPT !.err = "failed to create J-Link script"]
     ELSE [base EXCEPT !.script = TRUE, !.mramAddr = AddrHE, !.tocAddr = AddrToc,
                       !.jlink = TRUE, !.ok = jlinkOk,
                       !.err = IF jlinkOk THEN "" ELSE "J-Link flash failed"]

MapStates == { "none", "new", "stale", "partial" }

flashViaJLink ==
  /\ jlRet.fn = "none"
  /\ \E writeOk, jlinkOk \in BOOLEAN :
       jlRet' = flashViaJLinkResult(bd["app-package-map.txt"], tk["build/app-package-map.txt"],
                                    mapText, writeOk, jlinkOk)
  /\ UNCHANGED mapText
  /\ UNCHANGED <<ctxVars, tcVars, sgVars, flVars, syVars, shVars, spVars, stVars, rbVars, snVars, bfVars>>

flashViaJLinkFixed ==
  /\ jlRet.fn = "none"
  /\ \E writeOk, jlinkOk \in BOOLEAN :
       jlRet' = flashViaJLinkFixedResult(bd["app-package-map.txt"], tk["build/app-package-map.txt"],
                                         mapText, writeOk, jlinkOk)
  /\ UNCHANGED mapText
  /\ UNCHANGED <<ctxVars, tcVars, sgVars, flVars, syVars, shVars, spVars, stVars, rbVars, snVars, bfVars>>

\* ------------------------------------------------------ the spinner

\* at most this many calls of Succeed or Fail on one spinner
MaxCallers == 2
\* at most this many animation frames
MaxFrames == 2

Callers == 1..MaxCallers

SnOthers == <<ctxVars, tcVars, sgVars, jlVars, flVars, syVars, shVars, spVars, stVars, rbVars, bfVars>>

Frames(out) == { i \in DOMAIN out : out[i] = "frame" }
Finals(out) == { i \in DOMAIN out : out[i] \in {"Succeed", "Fail"} }

\* Spinner.run, case <-t.C: one frame is printed
SpinnerFrame ==
  /\ snRun = "running"
  /\ Cardinality(Frames(snOut)) < MaxFrames
  /\ snOut' = Append(snOut, "frame")
  /\ UNCHANGED <<snActive, snClosed, snWg, snMu, snRun, snPc, snCall>>
  /\ UNCHANGED SnOthers

\* Spinner.run, case <-s.stop: return, the deferred wg.Done runs
SpinnerStopped ==
  /\ snRun = "running"
  /\ snClosed > 0
  /\ snRun' = "done"
  /\ snWg' = snWg - 1
  /\ UNCHANGED <<snActive, snClosed, snMu, snOut, snPc, snCall>>
  /\ UNCHANGED SnOthers

\* a call of Succeed
Succeed ==
  /\ \E c \in Callers :
       /\ snPc[c] = "idle"
       /\ snPc' = [snPc EXCEPT ![c] = "lock"]
       /\ snCall' = [snCall EXCEPT ![c] = "Succeed"]
  /\ UNCHANGED <<snActive, snClosed, snWg, snMu, snRun, snOut>>
  /\ UNCHANGED SnOthers

\* a call of Fail
Fail ==
  /\ \E c \in Callers :
       /\ snPc[c] = "idle"
       /\ snPc' = [snPc EXCEPT ![c] = "lock"]
       /\ snCall' = [snCall EXCEPT ![c] = "Fail"]
  /\ UNCHANGED <<snActive, snClosed, snWg, snMu, snRun, snOut>>
  /\ UNCHANGED SnOthers

\* s.mu.Lock()
SpinnerLock ==
  /\ \E c \in Callers :
       /\ snPc[c] = "lock" /\ snMu = 0
       /\ snMu' = c
       /\ snPc' = [snPc EXCEPT ![c] = "check"]
  /\ UNCHANGED <<snActive, snClosed, snWg, snRun, snOut, snCall>>
  /\ UNCHANGED SnOthers

\* if !s.active { return } (the deferred Unlock runs); s.active = false
SpinnerCheck ==
  /\ \E c \in Callers :
       /\ snPc[c] = "check"
       /\ IF ~snActive
          THEN /\ snMu' = 0
               /\ snPc' = [snPc EXCEPT ![c] = "returned"]
               /\ UNCHANGED snActive
          ELSE /\ snActive' = FALSE
               /\ snPc' = [snPc EXCEPT ![c] = "close"]
               /\ UNCHANGED snMu
  /\ UNCHANGED <<snClosed, snWg, snRun, snOut, snCall>>
  /\ UNCHANGED SnOthers

\* close(s.stop)
SpinnerClose ==
  /\ \E c \in Callers :
       /\ snPc[c] = "close"
       /\ snClosed' = snClosed + 1
       /\ snPc' = [snPc EXCEPT ![c] = "wait"]
  /\ UNCHANGED <<snActive, snWg, snMu, snRun, snOut, snCall>>
  /\ UNCHANGED SnOthers

\* a stop that does not wait for the animation to end
SpinnerNoWait ==
  /\ \E c \in Callers :
       /\ snPc[c] = "wait"
       /\ snPc' = [snPc EXCEPT ![c] = "print"]
  /\ UNCHANGED <<snActive, snClosed, snWg, snMu, snRun, snOut, snCall>>
  /\ UNCHANGED SnOthers

\* s.wg.Wait()
SpinnerWait ==
  /\ \E c \in Callers :
       /\ snPc[c] = "wait" /\ snWg = 0
       /\ snPc' = [snPc EXCEPT ![c] = "print"]
  /\ UNCHANGED <<snActive, snClosed, snWg, snMu, snRun, snOut, snCall>>
  /\ UNCHANGED SnOthers

\* the final status line, then the deferred s.mu.Unlock()
SpinnerFinal ==
  /\ \E c \in Callers :
       /\ snPc[c] = "print"
       /\ snOut' = Append(snOut, snCall[c])
       /\ snMu' = 0
       /\ snPc' = [snPc EXCEPT ![c] = "returned"]
  /\ UNCHANGED <<snActive, snClosed, snWg, snRun, snCall>>
  /\ UNCHANGED SnOthers

\* C22: the stop channel is closed at most once and at most one final status
\* line is printed, whatever the interleaving of Succeed and Fail calls; once
\* any of them has returned, the channel was closed exactly once, exactly
\* one final line was printed, the animation task has ended, and no frame
\* follows the final line.
C22_SpinnerStopSynchronized ==
  /\ snClosed <= 1
  /\ Cardinality(Finals(snOut)) <= 1
  /\ \A i \in Finals(snOut) : \A j \in Frames(snOut) : j < i
  /\ \A i \in Finals(snOut) : snRun = "done"
  /\ (\E c \in DOMAIN snPc : snPc[c] = "returned")
       => /\ snClosed = 1 /\ snRun = "done" /\ snWg = 0
          /\ Cardinality(Finals(snOut)) = 1

C22_Witness ==
  /\ \A c \in DOMAIN snPc : snPc[c] = "returned"
  /\ DOMAIN snPc = Callers
  /\ snCall[1] = "Succeed" /\ snCall[2] = "Fail"
  /\ snOut = <<"frame", "frame", "Fail">>

\* ------------------------------------------------------ the build state

\* at most this many saves of the build state in a row
MaxSaves == 2

StNoSave == [fn |-> "none", bin |-> EmptyStr, toc |-> EmptyStr, target |-> EmptyStr, outcome |-> "none"]
StNoLoad == [fn |-> "none", ok |-> FALSE, bin |-> EmptyStr, toc |-> EmptyStr, target |-> EmptyStr]
NoStateFile == [exists |-> FALSE, text |-> EmptyStr]

BinA == <<"a",".","b","i","n">>
TocA == <<"t","o","c",".","b","i","n">>
TocTwoLines == <<"t","o","c","\n","x">>
CoreE7HE == <<"E","7","-","H","E">>
OldState == <<"o","l","d",".","b","i","n","\n","o","l","d","-","t","o","c",".","b","i","n","\n","E","3">>
JunkState == <<"j","u","n","k">>

\* what the state file may hold before a run
StateFiles == { NoStateFile, [exists |-> TRUE, text |-> OldState], [exists |-> TRUE, text |-> JunkState] }

\* fmt.Sprintf("%s\n%s\n%s", bin, toc, target)
BuildStateContent(bin, toc, target) == bin \o <<"\n">> \o toc \o <<"\n">> \o target

\* a write that adds to the file instead of replacing it
WriteFileAppend(file, content, outcome) ==
  IF outcome = "ok" THEN [exists |-> TRUE, text |-> file.text \o content]
  ELSE IF outcome = "truncated" THEN [exists |-> TRUE, text |-> EmptyStr]
  ELSE file

\* os.WriteFile(path, content, 0644): the file is created or truncated, then
\* written; a failure leaves it as it was or empty
WriteFile(file, content, outcome) ==
  IF outcome = "ok" THEN [exists |-> TRUE, text |-> content]
  ELSE IF outcome = "truncated" THEN [exists |-> TRUE, text |-> EmptyStr]
  ELSE file

\* saveBuildState(root, bin, toc, target); the error of os.WriteFile is dropped
saveBuildStateResult(file, bin, toc, target, outcome) ==
  WriteFile(file, BuildStateContent(bin, toc, target), outcome)

\* BuildStateStore.Load(root): the file's lines; an error if the file is
\* missing or has fewer than two lines, the third line is optional
LoadBuildStateResult(file) ==
  LET base == [StNoLoad EXCEPT !.fn = "Load"]
      lines == Split(file.text, "\n")
  IN IF ~file.exists \/ Len(lines) < 2 THEN base
     ELSE [base EXCEPT !.ok = TRUE, !.bin = lines[1], !.toc = lines[2],
                       !.target = IF Len(lines) > 2 THEN lines[3] ELSE EmptyStr]

saveBuildState ==
  /\ stSaves < MaxSaves
  /\ \E bin \in {BinA, EmptyStr}, toc \in {TocA, TocTwoLines}, target \in {CoreE7HE, EmptyStr},
        outcome \in WriteOutcomes :
       /\ stateFile' = saveBuildStateResult(stateFile, bin, toc, target, outcome)
       /\ stLast' = [fn |-> "saveBuildState", bin |-> bin, toc |-> toc, target |-> target,
                     outcome |-> outcome]
  /\ stSaves' = stSaves + 1
  /\ stLoaded' = StNoLoad
  /\ UNCHANGED <<ctxVars, tcVars, sgVars, jlVars, flVars, syVars, shVars, spVars, rbVars, snVars, bfVars>>

LoadBuildState ==
  /\ stLoaded.fn = "none"
  /\ stLoaded' = LoadBuildStateResult(stateFile)
  /\ UNCHANGED <<stateFile, stLast, stSaves>>
  /\ UNCHANGED <<ctxVars, tcVars, sgVars, jlVars, flVars, syVars, shVars, spVars, rbVars, snVars, bfVars>>

NoNewline(s) == \A i \in 1..Len(s) : s[i] # "\n"

\* C19: after a save of a binary path, a TOC path and a target core none of
\* which contains a newline, whose write succeeded, a load returns exactly
\* these three values, whatever the file held before the save; and the file
\* then holds the three values and nothing of its previous content.
C19_SaveLoadRoundTrip ==
  (stLast.fn = "saveBuildState" /\ stLast.outcome = "ok"
     /\ NoNewline(stLast.bin) /\ NoNewline(stLast.toc) /\ NoNewline(stLast.target))
    => /\ stateFile.exists
       /\ stateFile.text = stLast.bin \o <<"\n">> \o stLast.toc \o <<"\n">> \o stLast.target
       /\ stLoaded.fn = "Load"
            => /\ stLoaded.ok
               /\ stLoaded.bin = stLast.bin /\ stLoaded.toc = stLast.toc
               /\ stLoaded.target = stLast.target

C19_Witness ==
  /\ stSaves = 2 /\ stLast.outcome = "ok"
  /\ stLast.bin = BinA /\ stLast.toc = TocA /\ stLast.target = CoreE7HE
  /\ stLoaded.ok /\ stLoaded.bin = BinA /\ stLoaded.toc = TocA /\ stLoaded.target = CoreE7HE

\* ------------------------------------------------------ the build command

RbNoArgs == [sign |-> FALSE, board |-> EmptyStr]

\* contexts Build may return: with and without a target part
BuildContexts == { Context(ProjHi, BtDebug, TgtHE), ProjHi \o <<".">> \o BtDebug }

\* what findRecentBin may return: nothing, or the newest .bin under out/
RecentBin == <<"o","u","t","/","o","l","d",".","b","i","n">>
RecentBins == { EmptyStr, RecentBin, <<"o","l","d",".","b","i","n">> }

TocName == <<"A","p","p","T","o","c","P","a","c","k","a","g","e",".","b","i","n">>

\* Builder.GetArtifactPath(projectPath, fullContext), relative to projectPath
GetArtifactPath(fullContext) ==
  LET parts == Split(fullContext, "+")
      left == parts[1]
      lastDot == LastIndex(left, <<".">>)
      proj == SubSeq(left, 1, lastDot)
      buildType == SubSeq(left, lastDot + 2, Len(left))
  IN IF Len(parts) # 2 \/ lastDot = -1 THEN EmptyStr
     ELSE <<"o","u","t","/">> \o proj \o <<"/">> \o parts[2] \o <<"/">> \o buildType
            \o <<"/">> \o proj \o <<".","b","i","n">>

\* filepath.Dir
Dir(path) ==
  IF ~Contains(path, <<"/">>) THEN <<".">>
  ELSE SubSeq(path, 1, LastIndex(path, <<"/">>))

\* filepath.Join(dir, name)
Join(dir, name) == IF dir = <<".">> THEN name ELSE dir \o <<"/">> \o name

\* the target core runBuild saves: the part of the context after "+"
TargetCoreOf(selectedContext) ==
  IF Len(Split(selectedContext, "+")) > 1 THEN Split(selectedContext, "+")[2] ELSE EmptyStr

RbExit(status) == rbPc' = "exited" /\ rbExit' = status

\* runBuild: project.IsSolutionRoot and config.LoadConfig
BuildValidate ==
  /\ rbPc = "validate"
  /\ \/ RbExit("1")
     \/ rbPc' = "compile" /\ UNCHANGED rbExit
  /\ UNCHANGED <<rbArgs, rbCtx, rbBin, rbFile0>>
  /\ UNCHANGED <<ctxVars, tcVars, sgVars, jlVars, flVars, syVars, shVars, spVars, stVars, snVars, bfVars>>

\* runBuild of src/cmd/build.go: b.Build; without --sign the run ends here
BuildCompile ==
  /\ rbPc = "compile"
  /\ rbArgs.board = EmptyStr
  /\ \/ RbExit("1") /\ UNCHANGED rbCtx
     \/ \E c \in BuildContexts :
          /\ rbCtx' = c
          /\ IF rbArgs.sign THEN rbPc' = "locate" /\ UNCHANGED rbExit ELSE RbExit("0")
  /\ UNCHANGED <<rbArgs, rbBin, rbFile0>>
  /\ UNCHANGED <<ctxVars, tcVars, sgVars, jlVars, flVars, syVars, shVars, spVars, stVars, snVars, bfVars>>

\* runBuild of part_001: b.Build for the --board target, always signs
BuildCompileBoard ==
  /\ rbPc = "compile"
  /\ rbArgs.board # EmptyStr
  /\ \/ RbExit("1")
     \/ rbPc' = "locate" /\ UNCHANGED rbExit
  /\ UNCHANGED <<rbArgs, rbCtx, rbBin, rbFile0>>
  /\ UNCHANGED <<ctxVars, tcVars, sgVars, jlVars, flVars, syVars, shVars, spVars, stVars, snVars, bfVars>>

\* runBuild: the binary at GetArtifactPath if it exists, else findRecentBin
\* (part_001: findRecentBin only); no binary ends the run
BuildLocate ==
  /\ rbPc = "locate"
  /\ \E found \in BOOLEAN, recent \in RecentBins :
       LET expected == IF rbArgs.board = EmptyStr THEN GetArtifactPath(rbCtx) ELSE EmptyStr
           binPath == IF found /\ expected # EmptyStr THEN expected ELSE recent
       IN IF binPath = EmptyStr
          THEN RbExit("1") /\ UNCHANGED rbBin
          ELSE rbBin' = binPath /\ rbPc' = "save" /\ UNCHANGED rbExit
  /\ UNCHANGED <<rbArgs, rbCtx, rbFile0>>
  /\ UNCHANGED <<ctxVars, tcVars, sgVars, jlVars, flVars, syVars, shVars, spVars, stVars, snVars, bfVars>>

\* runBuild: saveBuildState(solDir, binPath, tocPath, targetCore), before signing
BuildSaveState ==
  /\ rbPc = "save"
  /\ \E outcome \in WriteOutcomes :
       LET tocPath == Join(Dir(rbBin), TocName)
           targetCore == IF rbArgs.board = EmptyStr THEN TargetCoreOf(rbCtx) ELSE rbArgs.board
       IN /\ stateFile' = saveBuildStateResult(stateFile, rbBin, tocPath, targetCore, outcome)
          /\ stLast' = [fn |-> "saveBuildState", bin |-> rbBin, toc |-> tocPath,
                        target |-> targetCore, outcome |-> outcome]
  /\ stSaves' = stSaves + 1
  /\ rbPc' = "sign"
  /\ UNCHANGED <<rbArgs, rbCtx, rbBin, rbExit, rbFile0, stLoaded>>
  /\ UNCHANGED <<ctxVars, tcVars, sgVars, jlVars, flVars, syVars, shVars, spVars, snVars, bfVars>>

\* runBuild: the result of s.SignArtifact ends the run
BuildAfterSign ==
  /\ rbPc = "sign" /\ sgPc = "done"
  /\ IF sgRet.state = "ok" THEN RbExit("0") ELSE RbExit("1")
  /\ UNCHANGED <<rbArgs, rbCtx, rbBin, rbFile0>>
  /\ UNCHANGED <<ctxVars, tcVars, sgVars, jlVars, flVars, syVars, shVars, spVars, stVars, snVars, bfVars>>

BuildStep ==
  \/ BuildValidate \/ BuildCompile \/ BuildCompileBoard \/ BuildLocate
  \/ BuildSaveState \/ BuildAfterSign

\* C20: a run of the build command that failed, in compilation or in
\* signing, has neither created nor overwritten the build-state file.
C20_FailedBuildKeepsState ==
  (rbPc = "exited" /\ rbExit = "1") => stateFile = rbFile0

\* what the code guarantees: a run that ended before signing left the state
\* file as it was, and the save precedes SignArtifact
C20_StateSavedBeforeSigning ==
  /\ (rbPc \in {"validate", "compile", "locate", "save"} \/ (rbPc = "exited" /\ sgPc = "idle"))
       => stateFile = rbFile0 /\ stLast = StNoSave
  /\ rbPc = "sign" => stLast.fn = "saveBuildState" /\ stLast.toc = Join(Dir(rbBin), TocName)

\* ------------------------------------------------------ the flash command
FlNoArgs == [mode |-> "none", method |-> "ISP", noVerify |-> FALSE, noErase |-> FALSE]

\* toolkit files an earlier flash may have left staged
StaleToolkit ==
  [n \in TkNames |->
     IF n \in {"build/images/alif-img.bin", "AppTocPackage.bin", "build/AppTocPackage.bin",
               "build/app-package-map.txt"}
     THEN "stale" ELSE "none"]

\* os.Exit(1)
Exit1 == flPc' = "exited" /\ exitStatus' = "1"

\* targets.VerifyConnectedDevice: the probed identity against the target's
VerifyConnectedDevice(probed, target) == probed = target

\* isp_config_data.cfg in the toolkit
IspMissing == [state |-> "missing", text |-> EmptyStr]
IspFile(text) == [state |-> "file", text |-> text]

ComportWord == <<"c","o","m","p","o","r","t">>
BaudLine == <<"b","a","u","d","r","a","t","e"," ","1","1","5","2","0","0">>

\* what the file may hold before a run: nothing, a comport line of an
\* earlier run, no comport line
IspConfigs ==
  { IspMissing,
    IspFile(BaudLine \o <<"\n"," ">> \o ComportWord \o <<" ","o","l","d","\n">>),
    IspFile(BaudLine \o <<"\n">>) }

\* strings.Join(lines, "\n")
RECURSIVE JoinLines(_)
JoinLines(lines) ==
  IF Len(lines) = 0 THEN EmptyStr
  ELSE IF Len(lines) = 1 THEN lines[1]
  ELSE lines[1] \o <<"\n">> \o JoinLines(Tail(lines))

\* an update that leaves a file without a comport line as it is
UpdateISPConfigNoAppend(cfg, p, outcome) ==
  IF cfg.state = "missing"
  THEN IF outcome = "ok"
       THEN [ok |-> TRUE,
             cfg |-> IspFile(ComportWord \o <<" ">> \o p \o <<"\n">> \o BaudLine \o <<"\n">>)]
       ELSE [ok |-> FALSE, cfg |-> cfg]
  ELSE IF cfg.state = "unreadable"
  THEN [ok |-> FALSE, cfg |-> cfg]
  ELSE LET lines == Split(cfg.text, "\n")
           hits == { i \in 1..Len(lines) : HasPrefix(TrimSpace(lines[i]), ComportWord) }
           first == CHOOSE i \in hits : \A j \in hits : i <= j
           updated == IF hits # {}
                      THEN [lines EXCEPT ![first] = ComportWord \o <<" ">> \o p]
                      ELSE lines
       IN IF outcome = "ok" THEN [ok |-> TRUE, cfg |-> IspFile(JoinLines(updated))]
          ELSE [ok |-> FALSE, cfg |-> cfg]

\* Flasher.UpdateISPConfig(port) on the file; "fail" is an I/O error on it
UpdateISPConfig(cfg, p, outcome) ==
  IF cfg.state = "missing"
  THEN IF outcome = "ok"
       THEN [ok |-> TRUE,
             cfg |-> IspFile(ComportWord \o <<" ">> \o p \o <<"\n">> \o BaudLine \o <<"\n">>)]
       ELSE [ok |-> FALSE, cfg |-> cfg]
  ELSE IF cfg.state = "unreadable"
  THEN [ok |-> FALSE, cfg |-> cfg]
  ELSE LET lines == Split(cfg.text, "\n")
           hits == { i \in 1..Len(lines) : HasPrefix(TrimSpace(lines[i]), ComportWord) }
           first == CHOOSE i \in hits : \A j \in hits : i <= j
           updated == IF hits # {}
                      THEN [lines EXCEPT ![first] = ComportWord \o <<" ">> \o p]
                      ELSE Append(lines, ComportWord \o <<" ">> \o p)
       IN IF outcome = "ok" THEN [ok |-> TRUE, cfg |-> IspFile(JoinLines(updated))]
          ELSE [ok |-> FALSE, cfg |-> cfg]

\* the command's own file operations fail only in a run whose file operations
\* have all succeeded so far
IoChoices == IF faults = 0 THEN { "ok", "fail" } ELSE { "ok" }
StageChoices == IF faults = 0 THEN CopyOutcomes ELSE { "ok" }

\* runFlash up to the port selection: argument checks, LoadConfig, and the
\* resolution of the configuration (binary mode) or of the solution, the
\* context and its .cbuild.yml (project mode)
FlashResolve ==
  /\ flPc = "start"
  /\ \/ Exit1
     \/ flPc' = "port" /\ UNCHANGED exitStatus
  /\ UNCHANGED <<flArgs, flIdx, port, ispCfg, connected, targetId, verified, toolLog>>
  /\ UNCHANGED <<sgVars, jlVars>>
  /\ UNCHANGED <<ctxVars, tcVars, syVars, shVars, spVars, stVars, rbVars, snVars, bfVars>>

\* f.SelectPort()
FlashSelectPort ==
  /\ flPc = "port"
  /\ \/ Exit1 /\ UNCHANGED port
     \/ \E p \in Ports : port' = p /\ flPc' = "ispcfg" /\ UNCHANGED exitStatus
  /\ UNCHANGED <<flArgs, flIdx, ispCfg, connected, targetId, verified, toolLog>>
  /\ UNCHANGED <<sgVars, jlVars>>
  /\ UNCHANGED <<ctxVars, tcVars, syVars, shVars, spVars, stVars, rbVars, snVars, bfVars>>

\* if flashMethod == "ISP": f.UpdateISPConfig(port), a failure is a warning
FlashPrepareISP ==
  /\ flPc = "ispcfg"
  /\ IF flArgs.method = "ISP"
     THEN \E o \in IoChoices :
            LET r == UpdateISPConfig(ispCfg, port, o)
            IN /\ ispCfg' = r.cfg
               /\ faults' = Fault(o)
               /\ warned' = IF r.ok THEN warned ELSE warned \cup {"Failed to update ISP config"}
     ELSE UNCHANGED <<ispCfg, faults, warned>>
  /\ flPc' = IF flArgs.mode = "binary" THEN "copybin" ELSE "sync"
  /\ UNCHANGED <<flArgs, flIdx, port, connected, targetId, verified, toolLog, exitStatus>>
  /\ UNCHANGED <<tk, bd, sgPc, sgIdx, sgDefer, sgRet, sgEnv, jlVars>>
  /\ UNCHANGED <<ctxVars, tcVars, syVars, shVars, spVars, stVars, rbVars, snVars, bfVars>>

\* binary mode: the binary is copied under build/images, errors ignored
FlashCopyBinary ==
  /\ flPc = "copybin"
  /\ \E o \in StageChoices :
       /\ tk' = [tk EXCEPT !["build/images/alif-img.bin"] = copyFile(o, "bin", @)]
       /\ faults' = Fault(o)
  /\ flPc' = "sync"
  /\ UNCHANGED <<flArgs, flIdx, port, ispCfg, connected, targetId, verified, toolLog, exitStatus>>
  /\ UNCHANGED <<bd, sgPc, sgIdx, sgDefer, sgRet, sgEnv, warned, jlVars>>
  /\ UNCHANGED <<ctxVars, tcVars, syVars, shVars, spVars, stVars, rbVars, snVars, bfVars>>

\* targets.SyncToolkitConfig, a failure is a warning
FlashSync ==
  /\ flPc = "sync"
  /\ \E synced \in BOOLEAN :
       warned' = IF synced THEN warned ELSE warned \cup {"Toolkit sync failed"}
  /\ flPc' = "verify"
  /\ UNCHANGED <<flArgs, flIdx, port, ispCfg, connected, targetId, verified, toolLog, exitStatus>>
  /\ UNCHANGED <<tk, bd, sgPc, sgIdx, sgDefer, sgRet, sgEnv, faults, jlVars>>
  /\ UNCHANGED <<ctxVars, tcVars, syVars, shVars, spVars, stVars, rbVars, snVars, bfVars>>

\* a verification step whose failure is only reported
FlashVerifyWarnOnly ==
  /\ flPc = "verify"
  /\ IF flArgs.method = "ISP" /\ ~flArgs.noVerify
     THEN /\ toolLog' = Append(toolLog, "maintenance")
          /\ verified' = IF VerifyConnectedDevice(connected, targetId) THEN "ok" ELSE "failed"
     ELSE UNCHANGED <<verified, toolLog>>
  /\ flPc' = IF flArgs.mode = "binary" THEN "gentoc" ELSE "sign"
  /\ UNCHANGED <<flArgs, flIdx, port, ispCfg, connected, targetId, exitStatus>>
  /\ UNCHANGED <<sgVars, jlVars>>
  /\ UNCHANGED <<ctxVars, tcVars, syVars, shVars, spVars, stVars, rbVars, snVars, bfVars>>

\* if flashMethod == "ISP" && !flashNoVerify: VerifyConnectedDevice, an
\* error ends the run
FlashVerify ==
  /\ flPc = "verify"
  /\ IF flArgs.method = "ISP" /\ ~flArgs.noVerify
     THEN /\ toolLog' = Append(toolLog, "maintenance")
          /\ IF VerifyConnectedDevice(connected, targetId)
             THEN /\ verified' = "ok"
                  /\ flPc' = IF flArgs.mode = "binary" THEN "gentoc" ELSE "sign"
                  /\ UNCHANGED exitStatus
             ELSE verified' = "failed" /\ Exit1
     ELSE /\ flPc' = IF flArgs.mode = "binary" THEN "gentoc" ELSE "sign"
          /\ UNCHANGED <<verified, toolLog, exitStatus>>
  /\ UNCHANGED <<flArgs, flIdx, port, ispCfg, connected, targetId>>
  /\ UNCHANGED <<sgVars, jlVars>>
  /\ UNCHANGED <<ctxVars, tcVars, syVars, shVars, spVars, stVars, rbVars, snVars, bfVars>>

\* binary mode: app-gen-toc -f <config>
FlashGenToc ==
  /\ flPc = "gentoc"
  /\ toolLog' = Append(toolLog, "app-gen-toc")
  /\ \/ Exit1
     \/ flPc' = "writemram" /\ UNCHANGED exitStatus
  /\ UNCHANGED <<flArgs, flIdx, port, ispCfg, connected, targetId, verified>>
  /\ UNCHANGED <<sgVars, jlVars>>
  /\ UNCHANGED <<ctxVars, tcVars, syVars, shVars, spVars, stVars, rbVars, snVars, bfVars>>

\* binary mode: app-write-mram -p
FlashWriteMram ==
  /\ flPc = "writemram"
  /\ toolLog' = Append(toolLog, "app-write-mram -p")
  /\ \/ Exit1
     \/ flPc' = "exited" /\ exitStatus' = "0"
  /\ UNCHANGED <<flArgs, flIdx, port, ispCfg, connected, targetId, verified>>
  /\ UNCHANGED <<sgVars, jlVars>>
  /\ UNCHANGED <<ctxVars, tcVars, syVars, shVars, spVars, stVars, rbVars, snVars, bfVars>>

\* a run that calls Flash whatever SignArtifact returned
FlashAfterSignAlways ==
  /\ flPc = "sign" /\ sgPc = "done"
  /\ flPc' = "stage" /\ flIdx' = 1 /\ UNCHANGED exitStatus
  /\ UNCHANGED <<flArgs, port, ispCfg, connected, targetId, verified, toolLog>>
  /\ UNCHANGED <<sgVars, jlVars>>
  /\ UNCHANGED <<ctxVars, tcVars, syVars, shVars, spVars, stVars, rbVars, snVars, bfVars>>

\* project mode: the result of s.SignArtifact decides whether Flash is called
FlashAfterSign ==
  /\ flPc = "sign" /\ sgPc = "done"
  /\ IF sgRet.state = "ok"
     THEN flPc' = "stage" /\ flIdx' = 1 /\ UNCHANGED exitStatus
     ELSE Exit1 /\ UNCHANGED flIdx
  /\ UNCHANGED <<flArgs, port, ispCfg, connected, targetId, verified, toolLog>>
  /\ UNCHANGED <<sgVars, jlVars>>
  /\ UNCHANGED <<ctxVars, tcVars, syVars, shVars, spVars, stVars, rbVars, snVars, bfVars>>

\* the staging copies of Flasher.Flash, in its order: the image files into
\* build/images, each TOC file into the toolkit root and into build/
staging ==
  << [src |-> "alif-img.bin", dst |-> "build/images/alif-img.bin"],
     [src |-> "alif-img.bin.sign", dst |-> "build/images/alif-img.bin.sign"],
     [src |-> "alif-img.bin.crt", dst |-> "build/images/alif-img.bin.crt"],
     [src |-> "AppTocPackage.bin", dst |-> "AppTocPackage.bin"],
     [src |-> "AppTocPackage.bin", dst |-> "build/AppTocPackage.bin"],
     [src |-> "AppTocPackage.bin.sign", dst |-> "AppTocPackage.bin.sign"],
     [src |-> "AppTocPackage.bin.sign", dst |-> "build/AppTocPackage.bin.sign"],
     [src |-> "AppTocPackage.bin.crt", dst |-> "AppTocPackage.bin.crt"],
     [src |-> "AppTocPackage.bin.crt", dst |-> "build/AppTocPackage.bin.crt"] >>

\* one staging copy: only if the source exists, its error is dropped
FlashStage ==
  /\ flPc = "stage" /\ flIdx \in 1..Len(staging)
  /\ LET c == staging[flIdx]
     IN IF bd[c.src] = "none"
        THEN UNCHANGED <<tk, faults>>
        ELSE \E o \in StageChoices :
               /\ tk' = [tk EXCEPT ![c.dst] = copyFile(o, bd[c.src], @)]
               /\ faults' = Fault(o)
  /\ flIdx' = flIdx + 1
  /\ flPc' = IF flIdx = Len(staging) THEN "flashisp" ELSE "stage"
  /\ UNCHANGED <<flArgs, port, ispCfg, connected, targetId, verified, toolLog, exitStatus>>
  /\ UNCHANGED <<bd, sgPc, sgIdx, sgDefer, sgRet, sgEnv, warned, jlVars>>
  /\ UNCHANGED <<ctxVars, tcVars, syVars, shVars, spVars, stVars, rbVars, snVars, bfVars>>

\* Flash, ISP only: UpdateISPConfig must succeed
FlashUpdateISP ==
  /\ flPc = "flashisp"
  /\ IF flArgs.method = "ISP"
     THEN \E o \in IoChoices :
            LET r == UpdateISPConfig(ispCfg, port, o)
            IN /\ ispCfg' = r.cfg
               /\ faults' = Fault(o)
               /\ IF r.ok THEN flPc' = "erase" /\ UNCHANGED <<exitStatus, warned>>
                          ELSE Exit1 /\ warned' = warned \cup {"Flash failed", "failed to update ISP config"}
     ELSE flPc' = "program" /\ UNCHANGED <<ispCfg, faults, exitStatus, warned>>
  /\ UNCHANGED <<flArgs, flIdx, port, connected, targetId, verified, toolLog>>
  /\ UNCHANGED <<tk, bd, sgPc, sgIdx, sgDefer, sgRet, sgEnv, jlVars>>
  /\ UNCHANGED <<ctxVars, tcVars, syVars, shVars, spVars, stVars, rbVars, snVars, bfVars>>

\* a Flash that gives up when the erase fails
FlashEraseStrict ==
  /\ flPc = "erase"
  /\ IF flArgs.noErase
     THEN /\ toolLog' = Append(toolLog, "app-write-mram -e APP")
          /\ \E erased \in BOOLEAN :
               IF erased THEN flPc' = "program" /\ UNCHANGED <<warned, exitStatus>>
               ELSE Exit1 /\ warned' = warned \cup {"Flash failed"}
     ELSE flPc' = "program" /\ UNCHANGED <<toolLog, warned, exitStatus>>
  /\ UNCHANGED <<flArgs, flIdx, port, ispCfg, connected, targetId, verified>>
  /\ UNCHANGED <<tk, bd, sgPc, sgIdx, sgDefer, sgRet, sgEnv, faults, jlVars>>
  /\ UNCHANGED <<ctxVars, tcVars, syVars, shVars, spVars, stVars, rbVars, snVars, bfVars>>

\* Flash, ISP only: if doErase, EraseViaISP; a failure is a warning.  runFlash
\* passes flashNoErase in the position of doErase
FlashErase ==
  /\ flPc = "erase"
  /\ IF flArgs.noErase
     THEN /\ toolLog' = Append(toolLog, "app-write-mram -e APP")
          /\ \E erased \in BOOLEAN :
               warned' = IF erased THEN warned ELSE warned \cup {"Automatic erase failed"}
     ELSE UNCHANGED <<toolLog, warned>>
  /\ flPc' = "program"
  /\ UNCHANGED <<flArgs, flIdx, port, ispCfg, connected, targetId, verified, exitStatus>>
  /\ UNCHANGED <<tk, bd, sgPc, sgIdx, sgDefer, sgRet, sgEnv, faults, jlVars>>
  /\ UNCHANGED <<ctxVars, tcVars, syVars, shVars, spVars, stVars, rbVars, snVars, bfVars>>

\* Flash: flashViaJLink for JTAG, else app-write-mram -p; an error of Flash
\* ends the run with status 1
FlashProgram ==
  /\ flPc = "program"
  /\ IF flArgs.method = "JTAG"
     THEN \E writeOk, jlinkOk \in BOOLEAN :
            LET r == flashViaJLinkResult(bd["app-package-map.txt"],
                                         tk["build/app-package-map.txt"],
                                         mapText, writeOk, jlinkOk)
            IN /\ jlRet' = r
               /\ toolLog' = IF r.jlink THEN Append(toolLog, "JLinkExe") ELSE toolLog
               /\ IF r.ok THEN flPc' = "exited" /\ exitStatus' = "0" /\ UNCHANGED warned
                          ELSE Exit1 /\ warned' = warned \cup {"Flash failed"}
     ELSE /\ toolLog' = Append(toolLog, "app-write-mram -p")
          /\ UNCHANGED jlRet
          /\ \/ Exit1 /\ warned' = warned \cup {"Flash failed"}
             \/ flPc' = "exited" /\ exitStatus' = "0" /\ UNCHANGED warned
  /\ UNCHANGED <<flArgs, flIdx, port, ispCfg, connected, targetId, verified>>
  /\ UNCHANGED <<tk, bd, sgPc, sgIdx, sgDefer, sgRet, sgEnv, faults, mapText>>
  /\ UNCHANGED <<ctxVars, tcVars, syVars, shVars, spVars, stVars, rbVars, snVars, bfVars>>

FlashStep ==
  \/ FlashResolve \/ FlashSelectPort \/ FlashPrepareISP \/ FlashCopyBinary \/ FlashSync
  \/ FlashVerify \/ FlashGenToc \/ FlashWriteMram \/ FlashAfterSign \/ FlashStage
  \/ FlashUpdateISP \/ FlashErase \/ FlashProgram

\* ---- statements about JTAG programming
\* the map file the resolvers read, as text; NoMap when there is none
MapRead ==
  IF MapPathState(bd["app-package-map.txt"], tk["build/app-package-map.txt"]) = "none"
  THEN << >>
  ELSE MapTextOf(MapPathState(bd["app-package-map.txt"], tk["build/app-package-map.txt"]), mapText)

MapMissing == MapPathState(bd["app-package-map.txt"], tk["build/app-package-map.txt"]) = "none"
HasImgLine == \E i \in 1..Len(MapRead) : Contains(MapRead[i], ImgName)
HasTocLine == \E i \in 1..Len(MapRead) : Contains(MapRead[i], TocMarker)

\* C2: JTAG programming without a usable map (no map file, no line naming
\* alif-img.bin, or no "APP Package Start Address:" line) returns an error,
\* writes no debugger script and does not start JLinkExe.
C2_NoDefaultAddresses ==
  (jlRet.fn # "none" /\ (MapMissing \/ ~HasImgLine \/ ~HasTocLine))
    => (~jlRet.ok /\ ~jlRet.script /\ ~jlRet.jlink)

\* the same statement for the map-resolving revision alone
C2_ResolvingRevision ==
  (jlRet.fn = "flashViaJLink" /\ (MapMissing \/ ~HasImgLine \/ ~HasTocLine))
    => (~jlRet.ok /\ ~jlRet.script /\ ~jlRet.jlink)

AfterLastColon(line) == SubSeq(line, LastIndex(line, <<":">>) + 2, Len(line))

\* the text between the first colon of a line and its next colon (or its end)
AfterFirstColon(line) ==
  LET rest == SubSeq(line, Index(line, <<":">>) + 2, Len(line))
  IN IF Contains(rest, <<":">>) THEN SubSeq(rest, 1, Index(rest, <<":">>)) ELSE rest

\* C18: the addresses flashViaJLink resolves from a map are the first
\* whitespace-delimited field of a line that references alif-img.bin and the
\* trimmed text after the last colon of a line containing "APP Package Start
\* Address:"; for the map made of the lines "0x80000000  alif-img.bin ..."
\* and "APP Package Start Address: 0x8057f0f0" they are 0x80000000 and
\* 0x8057f0f0.
C18_AddressesFromMap ==
  (jlRet.fn = "flashViaJLink" /\ jlRet.script)
    => /\ \E i \in 1..Len(MapRead) :
            /\ Contains(MapRead[i], ImgName)
            /\ jlRet.mramAddr = Fields(MapRead[i])[1]
       /\ \E i \in 1..Len(MapRead) :
            /\ Contains(MapRead[i], TocMarker)
            /\ jlRet.tocAddr = TrimSpace(AfterLastColon(MapRead[i]))
       /\ MapRead = <<LineImg, LineToc>> => jlRet.mramAddr = AddrHE /\ jlRet.tocAddr = AddrToc

\* what the code does: the TOC address is the trimmed text between the first
\* colon of the marker line and the next colon
C18_TocAfterFirstColon ==
  (jlRet.fn = "flashViaJLink" /\ jlRet.script)
    => /\ \E i \in 1..Len(MapRead) :
            /\ Contains(MapRead[i], ImgName)
            /\ jlRet.mramAddr = Fields(MapRead[i])[1]
       /\ \E i \in 1..Len(MapRead) :
            /\ Contains(MapRead[i], TocMarker)
            /\ jlRet.tocAddr = TrimSpace(AfterFirstColon(MapRead[i]))
       /\ MapRead = <<LineImg, LineToc>> => jlRet.mramAddr = AddrHE /\ jlRet.tocAddr = AddrToc

\* C3: once SignArtifact has returned, staged_config.json is not in the toolkit.
C3_StagedConfigRemoved ==
  sgPc = "done" => tk["staged_config.json"] = "none"

\* C4: SignArtifact returns success only if this run's app-gen-toc produced
\* AppTocPackage.bin and the file is in the build directory on return; and
\* once that file has been retrieved, no other missing artifact makes the
\* call fail.
C4_SuccessNeedsToc ==
  /\ (sgPc = "done" /\ sgRet.state = "ok")
       => ("build/AppTocPackage.bin" \in sgEnv.produced /\ bd["AppTocPackage.bin"] = "new")
  /\ (sgPc = "done" /\ sgEnv.toolExit = "zero" /\ bd["AppTocPackage.bin"] = "new")
       => sgRet.state = "ok"

\* C13: whenever the synchronisation in SignArtifact has not established
\* the target's identity, a warning has been printed and signing has gone on
\* to read the configuration.
C13_SyncFailureSurfaced ==
  (sgEnv.sync.run /\ ~sgEnv.sync.established)
    => ("Toolkit sync failed" \in warned /\ sgPc \notin {"idle", "resolve", "sync"})

\* the part of it that the error return of SyncToolkitConfig covers
C13_SyncErrorWarned ==
  (sgEnv.sync.run /\ sgEnv.sync.err)
    => ("Toolkit sync failed" \in warned /\ sgPc \notin {"idle", "resolve", "sync"})

Staged(t) == { n \in TkNames : t[n] # "none" }

EraseCalls == { i \in DOMAIN toolLog : toolLog[i] = "app-write-mram -e APP" }
ProgramCalls == { i \in DOMAIN toolLog : toolLog[i] \in {"app-write-mram -p", "JLinkExe"} }

\* C15: the erase sub-mode of the programming tool is invoked only on an
\* explicit request to erase: a run given no erase-related flag performs no
\* erase, a run given the flag that asks to skip erasing performs no erase,
\* and an erase that is performed precedes every program invocation.
C15_EraseOnlyOnRequest ==
  /\ ~flArgs.noErase => EraseCalls = {}
  /\ flArgs.noErase => EraseCalls = {}
  /\ \A e \in EraseCalls : \A p \in ProgramCalls : e < p

\* what the code does: the erase (APP region only, ISP only, before the
\* program invocation) runs in no run but those given --no-erase
C15_EraseFollowsNoEraseFlag ==
  /\ EraseCalls # {} => flArgs.noErase /\ flArgs.method = "ISP" /\ flArgs.mode = "project"
  /\ \A e \in EraseCalls : \A p \in ProgramCalls : e < p
  /\ Cardinality(EraseCalls) <= 1

\* C16: in the Flash call of a flash run, a run that invoked the erase goes
\* on to the program stage whatever the erase returned (a failed erase only
\* adds a warning), so a run that ended after an erase has attempted the
\* program stage; and a failed program stage, ISP or JTAG, ends the run at
\* once with an error.
C16_EraseWarnsProgramDecides ==
  /\ EraseCalls # {} =>
       /\ flPc \in {"program", "exited"}
       /\ flPc = "program" => exitStatus = "running"
       /\ flPc = "exited" => ProgramCalls # {}
  /\ "Automatic erase failed" \in warned => EraseCalls # {}
  /\ "Flash failed" \in warned => flPc = "exited" /\ exitStatus = "1"
  /\ (flPc = "exited" /\ jlRet.fn # "none" /\ ~jlRet.ok) => "Flash failed" \in warned
  /\ (flArgs.mode = "project" /\ exitStatus = "1" /\ ProgramCalls # {}) => "Flash failed" \in warned

C16_Witness ==
  /\ "Automatic erase failed" \in warned
  /\ toolLog = <<"app-write-mram -e APP", "app-write-mram -p">>
  /\ flPc = "exited" /\ exitStatus = "0"

\* C21: a flash run ends with exit status zero only if every stage it
\* executed succeeded: the verification when it ran, the copy of the binary
\* into the toolkit (binary mode), the image creation and each staging copy
\* of a build-directory file into the toolkit (project mode).
C21_ZeroExitMeansEveryStageOk ==
  exitStatus = "0"
    => /\ (flArgs.method = "ISP" /\ ~flArgs.noVerify) => verified = "ok"
       /\ flArgs.mode = "binary" => tk["build/images/alif-img.bin"] = "bin"
       /\ flArgs.mode = "project" =>
            /\ sgRet.state = "ok"
            /\ \A i \in 1..Len(staging) :
                 bd[staging[i].src] # "none" => tk[staging[i].dst] = bd[staging[i].src]

\* what the code guarantees: exit status zero needs the verification (when
\* enabled), the image creation (project mode) and the last programming tool
\* to have succeeded; failed copies into the toolkit do not end the run
C21_ZeroExitMeansToolsOk ==
  exitStatus = "0"
    => /\ flPc = "exited"
       /\ (flArgs.method = "ISP" /\ ~flArgs.noVerify) => verified = "ok"
       /\ flArgs.mode = "project" => sgRet.state = "ok"
       /\ "Flash failed" \notin warned
       /\ ProgramCalls # {}

\* the configuration file holds a comport entry naming port p
HasComportEntry(cfg, p) ==
  /\ cfg.state = "file"
  /\ \E i \in DOMAIN Split(cfg.text, "\n") :
       TrimSpace(Split(cfg.text, "\n")[i]) = ComportWord \o <<" ">> \o p

\* C23: in a project-mode ISP flash, whenever Flasher.Flash has invoked
\* app-write-mram (erase or program), the toolkit's ISP configuration file
\* holds a comport entry equal to the selected port; and when the update of
\* that file inside Flash failed, Flash has returned an error and invoked
\* app-write-mram neither to erase nor to program.
C23_ComportSetBeforeMramWrite ==
  /\ (flArgs.mode = "project" /\ flArgs.method = "ISP" /\ EraseCalls \cup ProgramCalls # {})
       => port \in Ports /\ HasComportEntry(ispCfg, port)
  /\ "failed to update ISP config" \in warned
       => /\ flPc = "exited" /\ exitStatus = "1"
          /\ EraseCalls \cup ProgramCalls = {}

\* a file that had no comport line was given one, and the tool ran
C23_Witness ==
  /\ flArgs.mode = "project" /\ flArgs.method = "ISP"
  /\ ProgramCalls # {} /\ EraseCalls # {}
  /\ Len(Split(ispCfg.text, "\n")) = 3
  /\ Split(ispCfg.text, "\n")[3] = ComportWord \o <<" ">> \o port

\* the stage of a project-mode flash run a position belongs to: 1 port
\* selection (with the ISP configuration written right after it), 2 toolkit
\* sync, 3 hardware verification, 4 image creation, 5 programming
\* (Flasher.Flash), 6 ended
StageOf(pc) ==
  IF pc = "start" THEN 0
  ELSE IF pc \in {"port", "ispcfg"} THEN 1
  ELSE IF pc = "sync" THEN 2
  ELSE IF pc = "verify" THEN 3
  ELSE IF pc = "sign" THEN 4
  ELSE IF pc \in {"stage", "flashisp", "erase", "program"} THEN 5
  ELSE 6

StageStep ==
  \* the stages are taken in order, none is skipped, the run may end early
  /\ StageOf(flPc') \in {StageOf(flPc), StageOf(flPc) + 1, 6}
  \* SignArtifact runs in the image creation stage only
  /\ sgPc' # sgPc => flPc = "sign" /\ flPc' = "sign"
  \* the verification's tool runs in its stage only, and only when enabled
  /\ verified' # verified =>
       flPc = "verify" /\ flArgs.method = "ISP" /\ ~flArgs.noVerify
  \* the programming tools run in the programming stage only
  /\ (EraseCalls' # EraseCalls \/ ProgramCalls' # ProgramCalls) => StageOf(flPc) = 5
  \* programming is entered from a SignArtifact of this run that succeeded,
  \* with a selected port and a passed verification when that is enabled
  /\ (StageOf(flPc) # 5 /\ StageOf(flPc') = 5) =>
       /\ flPc = "sign" /\ sgPc = "done" /\ sgRet.state = "ok"
       /\ port \in Ports
       /\ (flArgs.method = "ISP" /\ ~flArgs.noVerify) => verified = "ok"
  \* a failed port selection, verification or image creation ends the run
  /\ (flPc = "port" /\ port' \notin Ports) => flPc' = "exited" /\ exitStatus' = "1"
  /\ verified' = "failed" => flPc' = "exited" /\ exitStatus' = "1"
  /\ (flPc = "sign" /\ flPc' # "sign" /\ sgRet.state # "ok") =>
       flPc' = "exited" /\ exitStatus' = "1"

\* C24: in a project-mode flash the stages run in the order port selection,
\* toolkit sync, hardware verification (when enabled), image creation,
\* programming; programming is entered only after SignArtifact returned
\* success in the same run, and a failed port selection, verification or
\* image creation ends the run before programming.
C24_StagesInOrder == [][flArgs.mode = "project" => StageStep]_vars

\* a run whose toolkit sync failed went through every stage and programmed
C24_Witness ==
  /\ flArgs.mode = "project" /\ flArgs.method = "ISP" /\ ~flArgs.noVerify
  /\ port \in Ports /\ "Toolkit sync failed" \in warned /\ verified = "ok"
  /\ sgRet.state = "ok" /\ ProgramCalls # {}
  /\ flPc = "exited" /\ exitStatus = "0"

\* C25: at the moment SignArtifact invokes app-gen-toc, the toolkit holds a
\* complete copy of the input binary at the path named by the config's
\* binary field and one under build/images; when either copy could not be
\* made, SignArtifact has failed and the tool was not invoked in that run.
C25_BinaryStagedAtToolCall ==
  /\ sgPc = "tool" => tk["rootDst"] = "bin" /\ tk["imagesDst"] = "bin"
  /\ sgRet.err \in {"failed to copy binary to root", "failed to copy binary to build/images"}
       => sgPc = "done" /\ sgRet.state = "err" /\ sgEnv.toolExit = "notrun"
  /\ sgEnv.toolExit # "notrun" => sgPc \in {"retrieve", "done"}

\* a second run about to invoke the tool, after a first run whose copy under
\* build/images failed
C25_Witness ==
  /\ sgPc = "tool" /\ sgRuns = 1
  /\ sgPrev.ret.err = "failed to copy binary to build/images"
  /\ sgPrev.tk["imagesDst"] = "partial"

\* the revision the priority rule names: the configured one if listed, else
\* the first listed, else the default
ListedRevs(feat) == IF feat.kind = "ok" THEN { feat.revs[i] : i \in DOMAIN feat.revs } ELSE {}
PriorityRev(feat, cur) ==
  IF cur \in ListedRevs(feat) THEN cur
  ELSE IF ListedRevs(feat) # {} THEN feat.revs[1]
  ELSE "A0"

\* a step that is a call of SyncToolkitConfig which stored a revision
SyncStored ==
  /\ Len(syLog') = Len(syLog) + 1
  /\ syLog'[Len(syLog')].ret = "nil" /\ syLog'[Len(syLog')].wrote

\* C26: the revision a call of SyncToolkitConfig stores is the configured
\* revision if the part's revision list holds it, otherwise the first
\* revision of the list, otherwise (no list, empty list, unreadable feature
\* database) "A0"; so it is a listed revision or the default.
C26_StoredRevisionByPriority ==
  [][SyncStored =>
       /\ syGlob'.rev = PriorityRev(syFeat, syGlob.rev)
       /\ syGlob'.rev \in ListedRevs(syFeat) \cup {"A0"}]_vars

\* the same for revision lists made of non-empty strings, and for all
\* lists the stored revision is a listed one or the default
C26_StoredRevisionNonEmptyNames ==
  [][SyncStored =>
       /\ ("" \notin ListedRevs(syFeat) /\ RevNonString \notin ListedRevs(syFeat))
            => syGlob'.rev = PriorityRev(syFeat, syGlob.rev)
       /\ syGlob'.rev \in ListedRevs(syFeat) \cup {"A0"}]_vars

\* a step that is a call of SyncToolkitConfig
SyncCalled == Len(syLog') = Len(syLog) + 1

\* C27: a call of SyncToolkitConfig changes nothing in the toolkit but the
\* DEVICE Part# and Revision of global-cfg.db: every other section and key
\* of that file keeps its value, devicesDB.db and featuresDB.db are not
\* written, and with an empty target identifier or one that matches no part
\* nothing is written.
C27_SyncWritesOnlyPartAndRevision ==
  [][SyncCalled =>
       /\ syDev' = syDev /\ syFeat' = syFeat
       /\ syGlob'.kind = syGlob.kind /\ syGlob'.other = syGlob.other
       /\ (syTarget = EmptyStr \/ MatchingParts(syDev, syTarget) = {})
            => ~syLog'[Len(syLog')].wrote /\ syGlob' = syGlob]_vars

\* the same for calls whose write did not fail, on files whose numbers are
\* exact as float64
C27_SyncWritesOnlyPartAndRevisionExact ==
  [][(SyncCalled /\ syLog'[Len(syLog')].ret = "nil"
        /\ \A e \in syGlob.other : e.val.text # BigInt) =>
       /\ syDev' = syDev /\ syFeat' = syFeat
       /\ syGlob'.kind = syGlob.kind /\ syGlob'.other = syGlob.other
       /\ (syTarget = EmptyStr \/ MatchingParts(syDev, syTarget) = {})
            => ~syLog'[Len(syLog')].wrote /\ syGlob' = syGlob]_vars

\* the retrieval passes this run has completed
Retrieved ==
  IF sgPc = "retrieve" THEN 1..(sgIdx - 1)
  ELSE IF sgPc = "done" /\ sgRet.state = "ok" THEN 1..Len(artifacts)
  ELSE {}

\* what an artifact held when the retrieval started: an output of this run's
\* tool, or the staged binary
AtRetrievalStart(src) ==
  IF src \in sgEnv.produced THEN "new" ELSE IF src = "rootDst" THEN "bin" ELSE "none"

\* C28: the retrieval of SignArtifact loses no artifact: for each artifact
\* present in the toolkit when the retrieval starts, once its pass is over
\* the build directory holds a complete copy of it or the original is still
\* in the toolkit, also when the rename fails and the fallback copy fails.
C28_RetrievalLosesNoArtifact ==
  \A i \in Retrieved :
    AtRetrievalStart(artifacts[i].src) # "none"
      => \/ bd[artifacts[i].dst] = AtRetrievalStart(artifacts[i].src)
         \/ tk[artifacts[i].src] = AtRetrievalStart(artifacts[i].src)

\* what the code guarantees: no artifact is lost when the rename succeeds
\* (same file system) or the fallback copy succeeds
C28_RetrievalKeepsArtifactWithoutFault ==
  (~sgEnv.crossDevice \/ faults = 0) => C28_RetrievalLosesNoArtifact

\* the image and the TOC as Flash stages them: build-directory file, toolkit copy
ProgramInputs ==
  { s \in { staging[i] : i \in DOMAIN staging } :
      s.dst \in {"build/images/alif-img.bin", "AppTocPackage.bin", "build/AppTocPackage.bin"} }

IspProgramCalled ==
  /\ flArgs.mode = "project" /\ flArgs.method = "ISP"
  /\ \E i \in DOMAIN toolLog : toolLog[i] = "app-write-mram -p"

\* C29: when Flash has invoked the ISP programming tool, the image and the
\* TOC staged in the toolkit (build/images/alif-img.bin, AppTocPackage.bin in
\* the toolkit root and in build/) are copies of this run's build-directory
\* files, never files an earlier run left in the toolkit.
C29_ProgramsThisRunsFiles ==
  IspProgramCalled =>
    \A s \in ProgramInputs : bd[s.src] # "none" /\ tk[s.dst] = bd[s.src]

\* what the code guarantees: a build-directory file whose copy did not fail
\* is the one staged
C29_StagedWhenPresentAndCopied ==
  (IspProgramCalled /\ faults = 0) =>
    \A s \in ProgramInputs : bd[s.src] # "none" => tk[s.dst] = bd[s.src]

\* C30: for a fixed configuration file every run of SignArtifact selects the
\* same binary field, also when several entries other than USER_APP carry
\* mramAddress and binary; and for a fixed device database and target
\* identifier every call of SyncToolkitConfig resolves the same part name.
C30_LookupsDeterministic ==
  /\ \A i, j \in DOMAIN bfLog : bfLog[i] = bfLog[j]
  /\ \A i, j \in DOMAIN syLog : syLog[i].part = syLog[j].part

\* what the code guarantees: the same choice when at most one entry can stop
\* the loop, or USER_APP names a binary; the same part when at most one
\* part number contains the identifier
C30_DeterministicWhenUnique ==
  /\ (Cardinality(BinaryCandidates(bfCfg)) <= 1
        \/ (bfCfg["USER_APP"].present /\ bfCfg["USER_APP"].binary \notin {"none", ""}))
       => \A i, j \in DOMAIN bfLog : bfLog[i] = bfLog[j]
  /\ Cardinality(MatchingParts(syDev, syTarget)) <= 1
       => \A i, j \in DOMAIN syLog : syLog[i].part = syLog[j].part

WritesMram(t) == t \in {"app-write-mram -e APP", "app-write-mram -p", "JLinkExe"}
NoMramWrite == \A i \in 1..Len(toolLog) : ~WritesMram(toolLog[i])

\* C1: in a flash run (binary or project mode) with method ISP and
\* verification not disabled, if the connected device's identity differs
\* from the target's, no erase or program tool is ever started and the run
\* never ends with status 0; once VerifyConnectedDevice has reported the
\* mismatch the run has ended with status 1.
C1_MismatchAbortsBeforeWrite ==
  (flArgs.mode # "none" /\ flArgs.method = "ISP" /\ ~flArgs.noVerify /\ connected # targetId)
    => /\ NoMramWrite
       /\ exitStatus # "0"
       /\ verified # "ok"
       /\ exitStatus = "running"
            => flPc \in {"start", "port", "ispcfg", "copybin", "sync", "verify"}
       /\ verified = "failed" => (exitStatus = "1" /\ flPc = "exited")

C1_Witness ==
  /\ flArgs.mode = "project" /\ flArgs.method = "ISP" /\ ~flArgs.noVerify
  /\ connected = "E3" /\ targetId = "E7"
  /\ verified = "failed" /\ exitStatus = "1" /\ toolLog = << "maintenance" >>

\* -------------------------------------------------------- specifications
\* a context resolution over any listed contexts, filters and typed line; the other components have not run
InitContext ==
  /\ cbuildOut \in ContextLists
  /\ targetFilter \in TargetFilters
  /\ projectFilter \in ProjectFilters
  /\ ctxStdin \in StdinLines
  /\ ctxRet = CtxNone
  /\ cfgFs = [p \in Slots |-> Absent]
  /\ explicitPath = NoPath
  /\ coreHint = EmptyStr
  /\ projectHint = EmptyStr
  /\ tcStdin = EmptyStr
  /\ tcRet = TcNone
  /\ tk = [n \in TkNames |-> "none"]
  /\ bd = [n \in BdNames |-> "none"]
  /\ sgPc = "idle" /\ sgIdx = 0 /\ sgDefer = FALSE
  /\ sgRet = SgNoRet /\ sgEnv = SgNoEnv
  /\ faults = 0 /\ warned = {}
  /\ mapText = << >>
  /\ jlRet = JlNone
  /\ flPc = "idle" /\ flArgs = FlNoArgs /\ flIdx = 0
  /\ port = EmptyStr /\ ispCfg = IspMissing
  /\ connected = "none" /\ targetId = "E7" /\ verified = "none"
  /\ toolLog = << >> /\ exitStatus = "running"
  /\ syTools = FALSE /\ syTarget = EmptyStr
  /\ syDev = [kind |-> "unreadable", keys |-> {}]
  /\ syFeat = [kind |-> "unreadable", revs |-> << >>]
  /\ syGlob = [kind |-> "unreadable", part |-> EmptyStr, rev |-> "", other |-> {}]
  /\ syLog = << >>
  /\ sgRuns = 0
  /\ sgPrev = [tk |-> [n \in TkNames |-> "none"], bd |-> [n \in BdNames |-> "none"],
               ret |-> SgNoRet, env |-> SgNoEnv]
  /\ spPorts = << >> /\ spStdin = EmptyStr
  /\ spRet = [fn |-> "none", ok |-> FALSE, port |-> EmptyStr, err |-> "",
              prompted |-> FALSE, shown |-> << >>]
  /\ stateFile = [exists |-> FALSE, text |-> EmptyStr]
  /\ stLast = [fn |-> "none", bin |-> EmptyStr, toc |-> EmptyStr, target |-> EmptyStr, outcome |-> "none"]
  /\ stSaves = 0
  /\ stLoaded = [fn |-> "none", ok |-> FALSE, bin |-> EmptyStr, toc |-> EmptyStr, target |-> EmptyStr]
  /\ rbPc = "idle" /\ rbArgs = [sign |-> FALSE, board |-> EmptyStr]
  /\ rbCtx = EmptyStr /\ rbBin = EmptyStr /\ rbExit = "running"
  /\ rbFile0 = [exists |-> FALSE, text |-> EmptyStr]
  /\ snActive = FALSE /\ snClosed = 0 /\ snWg = 0 /\ snMu = 0
  /\ snRun = "none" /\ snOut = << >>
  /\ snPc = << >> /\ snCall = << >>
  /\ bfCfg = << >> /\ bfLog = << >>

\* a configuration resolution over any file system, path, hints and typed line
InitTarget ==
  /\ cfgFs \in FileSystems
  /\ explicitPath \in ExplicitPaths
  /\ coreHint \in CoreHints
  /\ projectHint \in ProjectHints
  /\ tcStdin \in SelectionLines
  /\ tcRet = TcNone
  /\ cbuildOut = << >>
  /\ targetFilter = EmptyStr
  /\ projectFilter = EmptyStr
  /\ ctxStdin = EmptyStr
  /\ ctxRet = CtxNone
  /\ tk = [n \in TkNames |-> "none"]
  /\ bd = [n \in BdNames |-> "none"]
  /\ sgPc = "idle" /\ sgIdx = 0 /\ sgDefer = FALSE
  /\ sgRet = SgNoRet /\ sgEnv = SgNoEnv
  /\ faults = 0 /\ warned = {}
  /\ mapText = << >>
  /\ jlRet = JlNone
  /\ flPc = "idle" /\ flArgs = FlNoArgs /\ flIdx = 0
  /\ port = EmptyStr /\ ispCfg = IspMissing
  /\ connected = "none" /\ targetId = "E7" /\ verified = "none"
  /\ toolLog = << >> /\ exitStatus = "running"
  /\ syTools = FALSE /\ syTarget = EmptyStr
  /\ syDev = [kind |-> "unreadable", keys |-> {}]
  /\ syFeat = [kind |-> "unreadable", revs |-> << >>]
  /\ syGlob = [kind |-> "unreadable", part |-> EmptyStr, rev |-> "", other |-> {}]
  /\ syLog = << >>
  /\ sgRuns = 0
  /\ sgPrev = [tk |-> [n \in TkNames |-> "none"], bd |-> [n \in BdNames |-> "none"],
               ret |-> SgNoRet, env |-> SgNoEnv]
  /\ spPorts = << >> /\ spStdin = EmptyStr
  /\ spRet = [fn |-> "none", ok |-> FALSE, port |-> EmptyStr, err |-> "",
              prompted |-> FALSE, shown |-> << >>]
  /\ stateFile = [exists |-> FALSE, text |-> EmptyStr]
  /\ stLast = [fn |-> "none", bin |-> EmptyStr, toc |-> EmptyStr, target |-> EmptyStr, outcome |-> "none"]
  /\ stSaves = 0
  /\ stLoaded = [fn |-> "none", ok |-> FALSE, bin |-> EmptyStr, toc |-> EmptyStr, target |-> EmptyStr]
  /\ rbPc = "idle" /\ rbArgs = [sign |-> FALSE, board |-> EmptyStr]
  /\ rbCtx = EmptyStr /\ rbBin = EmptyStr /\ rbExit = "running"
  /\ rbFile0 = [exists |-> FALSE, text |-> EmptyStr]
  /\ snActive = FALSE /\ snClosed = 0 /\ snWg = 0 /\ snMu = 0
  /\ snRun = "none" /\ snOut = << >>
  /\ snPc = << >> /\ snCall = << >>
  /\ bfCfg = << >> /\ bfLog = << >>

\* a signing run; files an earlier build or flash may have left behind
InitSign ==
  /\ tk \in { t \in [TkNames -> {"none", "stale"}] :
               \A n \in TkNames : t[n] = "stale" => n \in {"build/AppTocPackage.bin", "imagesDst"} }
  /\ bd \in { b \in [BdNames -> {"none", "stale"}] :
               \A n \in BdNames : b[n] = "stale" => n \in {"AppTocPackage.bin", "alif-img.bin"} }
  /\ sgPc = "idle" /\ sgIdx = 0 /\ sgDefer = FALSE
  /\ sgRet = SgNoRet /\ sgEnv = SgNoEnv
  /\ faults = 0 /\ warned = {}
  /\ cbuildOut = << >>
  /\ targetFilter = EmptyStr
  /\ projectFilter = EmptyStr
  /\ ctxStdin = EmptyStr
  /\ ctxRet = CtxNone
  /\ cfgFs = [p \in Slots |-> Absent]
  /\ explicitPath = NoPath
  /\ coreHint = EmptyStr
  /\ projectHint = EmptyStr
  /\ tcStdin = EmptyStr
  /\ tcRet = TcNone
  /\ mapText = << >>
  /\ jlRet = JlNone
  /\ flPc = "idle" /\ flArgs = FlNoArgs /\ flIdx = 0
  /\ port = EmptyStr /\ ispCfg = IspMissing
  /\ connected = "none" /\ targetId = "E7" /\ verified = "none"
  /\ toolLog = << >> /\ exitStatus = "running"
  /\ syTools = FALSE /\ syTarget = EmptyStr
  /\ syDev = [kind |-> "unreadable", keys |-> {}]
  /\ syFeat = [kind |-> "unreadable", revs |-> << >>]
  /\ syGlob = [kind |-> "unreadable", part |-> EmptyStr, rev |-> "", other |-> {}]
  /\ syLog = << >>
  /\ sgRuns = 0
  /\ sgPrev = [tk |-> [n \in TkNames |-> "none"], bd |-> [n \in BdNames |-> "none"],
               ret |-> SgNoRet, env |-> SgNoEnv]
  /\ spPorts = << >> /\ spStdin = EmptyStr
  /\ spRet = [fn |-> "none", ok |-> FALSE, port |-> EmptyStr, err |-> "",
              prompted |-> FALSE, shown |-> << >>]
  /\ stateFile = [exists |-> FALSE, text |-> EmptyStr]
  /\ stLast = [fn |-> "none", bin |-> EmptyStr, toc |-> EmptyStr, target |-> EmptyStr, outcome |-> "none"]
  /\ stSaves = 0
  /\ stLoaded = [fn |-> "none", ok |-> FALSE, bin |-> EmptyStr, toc |-> EmptyStr, target |-> EmptyStr]
  /\ rbPc = "idle" /\ rbArgs = [sign |-> FALSE, board |-> EmptyStr]
  /\ rbCtx = EmptyStr /\ rbBin = EmptyStr /\ rbExit = "running"
  /\ rbFile0 = [exists |-> FALSE, text |-> EmptyStr]
  /\ snActive = FALSE /\ snClosed = 0 /\ snWg = 0 /\ snMu = 0
  /\ snRun = "none" /\ snOut = << >>
  /\ snPc = << >> /\ snCall = << >>
  /\ bfCfg = << >> /\ bfLog = << >>

\* a JTAG programming call over any state of the two map files
InitJtag ==
  /\ mapText \in MapTexts
  /\ jlRet = JlNone
  /\ \E b, t \in MapStates :
       /\ bd = [n \in BdNames |-> IF n = "app-package-map.txt" THEN b ELSE "none"]
       /\ tk = [n \in TkNames |-> IF n = "build/app-package-map.txt" THEN t ELSE "none"]
  /\ sgPc = "idle" /\ sgIdx = 0 /\ sgDefer = FALSE
  /\ sgRet = SgNoRet /\ sgEnv = SgNoEnv
  /\ faults = 0 /\ warned = {}
  /\ cbuildOut = << >>
  /\ targetFilter = EmptyStr
  /\ projectFilter = EmptyStr
  /\ ctxStdin = EmptyStr
  /\ ctxRet = CtxNone
  /\ cfgFs = [p \in Slots |-> Absent]
  /\ explicitPath = NoPath
  /\ coreHint = EmptyStr
  /\ projectHint = EmptyStr
  /\ tcStdin = EmptyStr
  /\ tcRet = TcNone
  /\ flPc = "idle" /\ flArgs = FlNoArgs /\ flIdx = 0
  /\ port = EmptyStr /\ ispCfg = IspMissing
  /\ connected = "none" /\ targetId = "E7" /\ verified = "none"
  /\ toolLog = << >> /\ exitStatus = "running"
  /\ syTools = FALSE /\ syTarget = EmptyStr
  /\ syDev = [kind |-> "unreadable", keys |-> {}]
  /\ syFeat = [kind |-> "unreadable", revs |-> << >>]
  /\ syGlob = [kind |-> "unreadable", part |-> EmptyStr, rev |-> "", other |-> {}]
  /\ syLog = << >>
  /\ sgRuns = 0
  /\ sgPrev = [tk |-> [n \in TkNames |-> "none"], bd |-> [n \in BdNames |-> "none"],
               ret |-> SgNoRet, env |-> SgNoEnv]
  /\ spPorts = << >> /\ spStdin = EmptyStr
  /\ spRet = [fn |-> "none", ok |-> FALSE, port |-> EmptyStr, err |-> "",
              prompted |-> FALSE, shown |-> << >>]
  /\ stateFile = [exists |-> FALSE, text |-> EmptyStr]
  /\ stLast = [fn |-> "none", bin |-> EmptyStr, toc |-> EmptyStr, target |-> EmptyStr, outcome |-> "none"]
  /\ stSaves = 0
  /\ stLoaded = [fn |-> "none", ok |-> FALSE, bin |-> EmptyStr, toc |-> EmptyStr, target |-> EmptyStr]
  /\ rbPc = "idle" /\ rbArgs = [sign |-> FALSE, board |-> EmptyStr]
  /\ rbCtx = EmptyStr /\ rbBin = EmptyStr /\ rbExit = "running"
  /\ rbFile0 = [exists |-> FALSE, text |-> EmptyStr]
  /\ snActive = FALSE /\ snClosed = 0 /\ snWg = 0 /\ snMu = 0
  /\ snRun = "none" /\ snOut = << >>
  /\ snPc = << >> /\ snCall = << >>
  /\ bfCfg = << >> /\ bfLog = << >>

\* a run of the flash command over its flags, with a toolkit an earlier flash has used
InitFlash ==
  /\ flPc = "start"
  /\ flArgs \in [mode : {"binary", "project"}, method : {"ISP", "JTAG"},
                 noVerify : BOOLEAN, noErase : BOOLEAN]
  /\ flIdx = 0 /\ port = EmptyStr
  /\ ispCfg \in IF flArgs.method = "ISP" THEN IspConfigs ELSE {IspMissing}
  /\ connected \in DeviceIds
  /\ targetId = "E7"
  /\ verified = "none"
  /\ toolLog = << >> /\ exitStatus = "running"
  /\ tk = StaleToolkit
  /\ bd = [n \in BdNames |-> "none"]
  /\ sgPc = "idle" /\ sgIdx = 0 /\ sgDefer = FALSE
  /\ sgRet = SgNoRet /\ sgEnv = SgNoEnv
  /\ faults = 0 /\ warned = {}
  /\ mapText = << LineImg, LineToc >>
  /\ jlRet = JlNone
  /\ cbuildOut = << >>
  /\ targetFilter = EmptyStr
  /\ projectFilter = EmptyStr
  /\ ctxStdin = EmptyStr
  /\ ctxRet = CtxNone
  /\ cfgFs = [p \in Slots |-> Absent]
  /\ explicitPath = NoPath
  /\ coreHint = EmptyStr
  /\ projectHint = EmptyStr
  /\ tcStdin = EmptyStr
  /\ tcRet = TcNone
  /\ syTools = FALSE /\ syTarget = EmptyStr
  /\ syDev = [kind |-> "unreadable", keys |-> {}]
  /\ syFeat = [kind |-> "unreadable", revs |-> << >>]
  /\ syGlob = [kind |-> "unreadable", part |-> EmptyStr, rev |-> "", other |-> {}]
  /\ syLog = << >>
  /\ sgRuns = 0
  /\ sgPrev = [tk |-> [n \in TkNames |-> "none"], bd |-> [n \in BdNames |-> "none"],
               ret |-> SgNoRet, env |-> SgNoEnv]
  /\ spPorts = << >> /\ spStdin = EmptyStr
  /\ spRet = [fn |-> "none", ok |-> FALSE, port |-> EmptyStr, err |-> "",
              prompted |-> FALSE, shown |-> << >>]
  /\ stateFile = [exists |-> FALSE, text |-> EmptyStr]
  /\ stLast = [fn |-> "none", bin |-> EmptyStr, toc |-> EmptyStr, target |-> EmptyStr, outcome |-> "none"]
  /\ stSaves = 0
  /\ stLoaded = [fn |-> "none", ok |-> FALSE, bin |-> EmptyStr, toc |-> EmptyStr, target |-> EmptyStr]
  /\ rbPc = "idle" /\ rbArgs = [sign |-> FALSE, board |-> EmptyStr]
  /\ rbCtx = EmptyStr /\ rbBin = EmptyStr /\ rbExit = "running"
  /\ rbFile0 = [exists |-> FALSE, text |-> EmptyStr]
  /\ snActive = FALSE /\ snClosed = 0 /\ snWg = 0 /\ snMu = 0
  /\ snRun = "none" /\ snOut = << >>
  /\ snPc = << >> /\ snCall = << >>
  /\ bfCfg = << >> /\ bfLog = << >>

\* calls of SyncToolkitConfig over any state of the three toolkit databases
InitSync ==
  /\ syTools \in BOOLEAN
  /\ syTarget \in TargetIds
  /\ syDev \in DevDbs
  /\ syFeat \in FeatDbs
  /\ syGlob \in GlobalCfgs
  /\ syLog = << >>
  /\ tk = [n \in TkNames |-> "none"]
  /\ bd = [n \in BdNames |-> "none"]
  /\ mapText = << >>
  /\ jlRet = JlNone
  /\ sgPc = "idle" /\ sgIdx = 0 /\ sgDefer = FALSE
  /\ sgRet = SgNoRet /\ sgEnv = SgNoEnv
  /\ faults = 0 /\ warned = {}
  /\ cbuildOut = << >>
  /\ targetFilter = EmptyStr
  /\ projectFilter = EmptyStr
  /\ ctxStdin = EmptyStr
  /\ ctxRet = CtxNone
  /\ cfgFs = [p \in Slots |-> Absent]
  /\ explicitPath = NoPath
  /\ coreHint = EmptyStr
  /\ projectHint = EmptyStr
  /\ tcStdin = EmptyStr
  /\ tcRet = TcNone
  /\ flPc = "idle" /\ flArgs = FlNoArgs /\ flIdx = 0
  /\ port = EmptyStr /\ ispCfg = IspMissing
  /\ connected = "none" /\ targetId = "E7" /\ verified = "none"
  /\ toolLog = << >> /\ exitStatus = "running"
  /\ sgRuns = 0
  /\ sgPrev = [tk |-> [n \in TkNames |-> "none"], bd |-> [n \in BdNames |-> "none"],
               ret |-> SgNoRet, env |-> SgNoEnv]
  /\ spPorts = << >> /\ spStdin = EmptyStr
  /\ spRet = [fn |-> "none", ok |-> FALSE, port |-> EmptyStr, err |-> "",
              prompted |-> FALSE, shown |-> << >>]
  /\ stateFile = [exists |-> FALSE, text |-> EmptyStr]
  /\ stLast = [fn |-> "none", bin |-> EmptyStr, toc |-> EmptyStr, target |-> EmptyStr, outcome |-> "none"]
  /\ stSaves = 0
  /\ stLoaded = [fn |-> "none", ok |-> FALSE, bin |-> EmptyStr, toc |-> EmptyStr, target |-> EmptyStr]
  /\ rbPc = "idle" /\ rbArgs = [sign |-> FALSE, board |-> EmptyStr]
  /\ rbCtx = EmptyStr /\ rbBin = EmptyStr /\ rbExit = "running"
  /\ rbFile0 = [exists |-> FALSE, text |-> EmptyStr]
  /\ snActive = FALSE /\ snClosed = 0 /\ snWg = 0 /\ snMu = 0
  /\ snRun = "none" /\ snOut = << >>
  /\ snPc = << >> /\ snCall = << >>
  /\ bfCfg = << >> /\ bfLog = << >>

NextSync == SyncToolkitConfig
SpecSync == InitSync /\ [][NextSync]_vars

InitPort ==
  /\ tk = [n \in TkNames |-> "none"]
  /\ bd = [n \in BdNames |-> "none"]
  /\ mapText = << >>
  /\ jlRet = JlNone
  /\ sgPc = "idle" /\ sgIdx = 0 /\ sgDefer = FALSE
  /\ sgRet = SgNoRet /\ sgEnv = SgNoEnv
  /\ faults = 0 /\ warned = {}
  /\ cbuildOut = << >>
  /\ targetFilter = EmptyStr
  /\ projectFilter = EmptyStr
  /\ ctxStdin = EmptyStr
  /\ ctxRet = CtxNone
  /\ cfgFs = [p \in Slots |-> Absent]
  /\ explicitPath = NoPath
  /\ coreHint = EmptyStr
  /\ projectHint = EmptyStr
  /\ tcStdin = EmptyStr
  /\ tcRet = TcNone
  /\ flPc = "idle" /\ flArgs = FlNoArgs /\ flIdx = 0
  /\ port = EmptyStr /\ ispCfg = IspMissing
  /\ connected = "none" /\ targetId = "E7" /\ verified = "none"
  /\ toolLog = << >> /\ exitStatus = "running"
  /\ sgRuns = 0
  /\ sgPrev = [tk |-> [n \in TkNames |-> "none"], bd |-> [n \in BdNames |-> "none"],
               ret |-> SgNoRet, env |-> SgNoEnv]
  /\ spPorts \in PortLists
  /\ spStdin \in StdinLines
  /\ spRet = SpNone
  /\ syTools = FALSE /\ syTarget = EmptyStr
  /\ syDev = [kind |-> "unreadable", keys |-> {}]
  /\ syFeat = [kind |-> "unreadable", revs |-> << >>]
  /\ syGlob = [kind |-> "unreadable", part |-> EmptyStr, rev |-> "", other |-> {}]
  /\ syLog = << >>
  /\ stateFile = [exists |-> FALSE, text |-> EmptyStr]
  /\ stLast = [fn |-> "none", bin |-> EmptyStr, toc |-> EmptyStr, target |-> EmptyStr, outcome |-> "none"]
  /\ stSaves = 0
  /\ stLoaded = [fn |-> "none", ok |-> FALSE, bin |-> EmptyStr, toc |-> EmptyStr, target |-> EmptyStr]
  /\ rbPc = "idle" /\ rbArgs = [sign |-> FALSE, board |-> EmptyStr]
  /\ rbCtx = EmptyStr /\ rbBin = EmptyStr /\ rbExit = "running"
  /\ rbFile0 = [exists |-> FALSE, text |-> EmptyStr]
  /\ snActive = FALSE /\ snClosed = 0 /\ snWg = 0 /\ snMu = 0
  /\ snRun = "none" /\ snOut = << >>
  /\ snPc = << >> /\ snCall = << >>
  /\ bfCfg = << >> /\ bfLog = << >>

InitStore ==
  /\ tk = [n \in TkNames |-> "none"]
  /\ bd = [n \in BdNames |-> "none"]
  /\ mapText = << >>
  /\ jlRet = JlNone
  /\ sgPc = "idle" /\ sgIdx = 0 /\ sgDefer = FALSE
  /\ sgRet = SgNoRet /\ sgEnv = SgNoEnv
  /\ faults = 0 /\ warned = {}
  /\ cbuildOut = << >>
  /\ targetFilter = EmptyStr
  /\ projectFilter = EmptyStr
  /\ ctxStdin = EmptyStr
  /\ ctxRet = CtxNone
  /\ cfgFs = [p \in Slots |-> Absent]
  /\ explicitPath = NoPath
  /\ coreHint = EmptyStr
  /\ projectHint = EmptyStr
  /\ tcStdin = EmptyStr
  /\ tcRet = TcNone
  /\ flPc = "idle" /\ flArgs = FlNoArgs /\ flIdx = 0
  /\ port = EmptyStr /\ ispCfg = IspMissing
  /\ connected = "none" /\ targetId = "E7" /\ verified = "none"
  /\ toolLog = << >> /\ exitStatus = "running"
  /\ sgRuns = 0
  /\ sgPrev = [tk |-> [n \in TkNames |-> "none"], bd |-> [n \in BdNames |-> "none"],
               ret |-> SgNoRet, env |-> SgNoEnv]
  /\ spPorts = << >> /\ spStdin = EmptyStr
  /\ spRet = [fn |-> "none", ok |-> FALSE, port |-> EmptyStr, err |-> "",
              prompted |-> FALSE, shown |-> << >>]
  /\ stateFile \in StateFiles
  /\ stLast = StNoSave /\ stSaves = 0 /\ stLoaded = StNoLoad
  /\ syTools = FALSE /\ syTarget = EmptyStr
  /\ syDev = [kind |-> "unreadable", keys |-> {}]
  /\ syFeat = [kind |-> "unreadable", revs |-> << >>]
  /\ syGlob = [kind |-> "unreadable", part |-> EmptyStr, rev |-> "", other |-> {}]
  /\ syLog = << >>
  /\ rbPc = "idle" /\ rbArgs = [sign |-> FALSE, board |-> EmptyStr]
  /\ rbCtx = EmptyStr /\ rbBin = EmptyStr /\ rbExit = "running"
  /\ rbFile0 = [exists |-> FALSE, text |-> EmptyStr]
  /\ snActive = FALSE /\ snClosed = 0 /\ snWg = 0 /\ snMu = 0
  /\ snRun = "none" /\ snOut = << >>
  /\ snPc = << >> /\ snCall = << >>
  /\ bfCfg = << >> /\ bfLog = << >>

InitBuild ==
  /\ tk = [n \in TkNames |-> "none"]
  /\ bd = [n \in BdNames |-> "none"]
  /\ mapText = << >>
  /\ jlRet = JlNone
  /\ sgPc = "idle" /\ sgIdx = 0 /\ sgDefer = FALSE
  /\ sgRet = SgNoRet /\ sgEnv = SgNoEnv
  /\ faults = 0 /\ warned = {}
  /\ cbuildOut = << >>
  /\ targetFilter = EmptyStr
  /\ projectFilter = EmptyStr
  /\ ctxStdin = EmptyStr
  /\ ctxRet = CtxNone
  /\ cfgFs = [p \in Slots |-> Absent]
  /\ explicitPath = NoPath
  /\ coreHint = EmptyStr
  /\ projectHint = EmptyStr
  /\ tcStdin = EmptyStr
  /\ tcRet = TcNone
  /\ flPc = "idle" /\ flArgs = FlNoArgs /\ flIdx = 0
  /\ port = EmptyStr /\ ispCfg = IspMissing
  /\ connected = "none" /\ targetId = "E7" /\ verified = "none"
  /\ toolLog = << >> /\ exitStatus = "running"
  /\ sgRuns = 0
  /\ sgPrev = [tk |-> [n \in TkNames |-> "none"], bd |-> [n \in BdNames |-> "none"],
               ret |-> SgNoRet, env |-> SgNoEnv]
  /\ spPorts = << >> /\ spStdin = EmptyStr
  /\ spRet = [fn |-> "none", ok |-> FALSE, port |-> EmptyStr, err |-> "",
              prompted |-> FALSE, shown |-> << >>]
  /\ stateFile \in StateFiles
  /\ stLast = [fn |-> "none", bin |-> EmptyStr, toc |-> EmptyStr, target |-> EmptyStr, outcome |-> "none"]
  /\ stSaves = 0
  /\ stLoaded = [fn |-> "none", ok |-> FALSE, bin |-> EmptyStr, toc |-> EmptyStr, target |-> EmptyStr]
  /\ rbPc = "validate"
  /\ rbArgs \in [sign : BOOLEAN, board : {EmptyStr, TgtHE}]
  /\ rbCtx = EmptyStr /\ rbBin = EmptyStr /\ rbExit = "running"
  /\ rbFile0 = stateFile
  /\ syTools = FALSE /\ syTarget = EmptyStr
  /\ syDev = [kind |-> "unreadable", keys |-> {}]
  /\ syFeat = [kind |-> "unreadable", revs |-> << >>]
  /\ syGlob = [kind |-> "unreadable", part |-> EmptyStr, rev |-> "", other |-> {}]
  /\ syLog = << >>
  /\ snActive = FALSE /\ snClosed = 0 /\ snWg = 0 /\ snMu = 0
  /\ snRun = "none" /\ snOut = << >>
  /\ snPc = << >> /\ snCall = << >>
  /\ bfCfg = << >> /\ bfLog = << >>

InitSpinner ==
  /\ tk = [n \in TkNames |-> "none"]
  /\ bd = [n \in BdNames |-> "none"]
  /\ mapText = << >>
  /\ jlRet = JlNone
  /\ sgPc = "idle" /\ sgIdx = 0 /\ sgDefer = FALSE
  /\ sgRet = SgNoRet /\ sgEnv = SgNoEnv
  /\ faults = 0 /\ warned = {}
  /\ cbuildOut = << >>
  /\ targetFilter = EmptyStr
  /\ projectFilter = EmptyStr
  /\ ctxStdin = EmptyStr
  /\ ctxRet = CtxNone
  /\ cfgFs = [p \in Slots |-> Absent]
  /\ explicitPath = NoPath
  /\ coreHint = EmptyStr
  /\ projectHint = EmptyStr
  /\ tcStdin = EmptyStr
  /\ tcRet = TcNone
  /\ flPc = "idle" /\ flArgs = FlNoArgs /\ flIdx = 0
  /\ port = EmptyStr /\ ispCfg = IspMissing
  /\ connected = "none" /\ targetId = "E7" /\ verified = "none"
  /\ toolLog = << >> /\ exitStatus = "running"
  /\ sgRuns = 0
  /\ sgPrev = [tk |-> [n \in TkNames |-> "none"], bd |-> [n \in BdNames |-> "none"],
               ret |-> SgNoRet, env |-> SgNoEnv]
  /\ spPorts = << >> /\ spStdin = EmptyStr
  /\ spRet = [fn |-> "none", ok |-> FALSE, port |-> EmptyStr, err |-> "",
              prompted |-> FALSE, shown |-> << >>]
  /\ stateFile = [exists |-> FALSE, text |-> EmptyStr]
  /\ stLast = [fn |-> "none", bin |-> EmptyStr, toc |-> EmptyStr, target |-> EmptyStr, outcome |-> "none"]
  /\ stSaves = 0
  /\ stLoaded = [fn |-> "none", ok |-> FALSE, bin |-> EmptyStr, toc |-> EmptyStr, target |-> EmptyStr]
  /\ rbPc = "idle" /\ rbArgs = [sign |-> FALSE, board |-> EmptyStr]
  /\ rbCtx = EmptyStr /\ rbBin = EmptyStr /\ rbExit = "running"
  /\ rbFile0 = [exists |-> FALSE, text |-> EmptyStr]
  /\ snActive = TRUE /\ snClosed = 0 /\ snWg = 1 /\ snMu = 0
  /\ snRun = "running" /\ snOut = << >>
  /\ snPc = [c \in Callers |-> "idle"] /\ snCall = [c \in Callers |-> "none"]
  /\ syTools = FALSE /\ syTarget = EmptyStr
  /\ syDev = [kind |-> "unreadable", keys |-> {}]
  /\ syFeat = [kind |-> "unreadable", revs |-> << >>]
  /\ syGlob = [kind |-> "unreadable", part |-> EmptyStr, rev |-> "", other |-> {}]
  /\ syLog = << >>
  /\ bfCfg = << >> /\ bfLog = << >>

InitLookup ==
  /\ syTools = TRUE
  /\ syTarget \in TargetIds
  /\ syDev \in { d \in DevDbs : d.kind = "ok" }
  /\ syFeat = [kind |-> "ok", revs |-> <<"B0", "A0">>]
  /\ syGlob = [kind |-> "ok", part |-> EmptyStr, rev |-> "", other |-> {}]
  /\ syLog = << >>
  /\ tk = [n \in TkNames |-> "none"]
  /\ bd = [n \in BdNames |-> "none"]
  /\ mapText = << >>
  /\ jlRet = JlNone
  /\ sgPc = "idle" /\ sgIdx = 0 /\ sgDefer = FALSE
  /\ sgRet = SgNoRet /\ sgEnv = SgNoEnv
  /\ faults = 0 /\ warned = {}
  /\ cbuildOut = << >>
  /\ targetFilter = EmptyStr
  /\ projectFilter = EmptyStr
  /\ ctxStdin = EmptyStr
  /\ ctxRet = CtxNone
  /\ cfgFs = [p \in Slots |-> Absent]
  /\ explicitPath = NoPath
  /\ coreHint = EmptyStr
  /\ projectHint = EmptyStr
  /\ tcStdin = EmptyStr
  /\ tcRet = TcNone
  /\ flPc = "idle" /\ flArgs = FlNoArgs /\ flIdx = 0
  /\ port = EmptyStr /\ ispCfg = IspMissing
  /\ connected = "none" /\ targetId = "E7" /\ verified = "none"
  /\ toolLog = << >> /\ exitStatus = "running"
  /\ sgRuns = 0
  /\ sgPrev = [tk |-> [n \in TkNames |-> "none"], bd |-> [n \in BdNames |-> "none"],
               ret |-> SgNoRet, env |-> SgNoEnv]
  /\ spPorts = << >> /\ spStdin = EmptyStr
  /\ spRet = [fn |-> "none", ok |-> FALSE, port |-> EmptyStr, err |-> "",
              prompted |-> FALSE, shown |-> << >>]
  /\ stateFile = [exists |-> FALSE, text |-> EmptyStr]
  /\ stLast = [fn |-> "none", bin |-> EmptyStr, toc |-> EmptyStr, target |-> EmptyStr, outcome |-> "none"]
  /\ stSaves = 0
  /\ stLoaded = [fn |-> "none", ok |-> FALSE, bin |-> EmptyStr, toc |-> EmptyStr, target |-> EmptyStr]
  /\ rbPc = "idle" /\ rbArgs = [sign |-> FALSE, board |-> EmptyStr]
  /\ rbCtx = EmptyStr /\ rbBin = EmptyStr /\ rbExit = "running"
  /\ rbFile0 = [exists |-> FALSE, text |-> EmptyStr]
  /\ snActive = FALSE /\ snClosed = 0 /\ snWg = 0 /\ snMu = 0
  /\ snRun = "none" /\ snOut = << >>
  /\ snPc = << >> /\ snCall = << >>
  /\ bfCfg \in SigningConfigs /\ bfLog = << >>

NextContext == ResolveContext \/ resolveContext
SpecContext == InitContext /\ [][NextContext]_vars

NextTarget == ResolveTargetConfig
SpecTarget == InitTarget /\ [][NextTarget]_vars

NextSign == SignStep \/ SignArtifactAgain
SpecSign == InitSign /\ [][NextSign]_vars

NextJtag == flashViaJLink \/ flashViaJLinkFixed
SpecJtag == InitJtag /\ [][NextJtag]_vars

NextFlash == FlashStep \/ SignStep
SpecFlash == InitFlash /\ [][NextFlash]_vars

NextPort == SelectPort \/ SelectPortListed
SpecPort == InitPort /\ [][NextPort]_vars

NextStore == saveBuildState \/ LoadBuildState
SpecStore == InitStore /\ [][NextStore]_vars

NextBuild == BuildStep \/ SignStep
SpecBuild == InitBuild /\ [][NextBuild]_vars

NextSpinner == SpinnerFrame \/ SpinnerStopped \/ Succeed \/ Fail \/ SpinnerLock \/ SpinnerCheck \/ SpinnerClose \/ SpinnerWait \/ SpinnerFinal
SpecSpinner == InitSpinner /\ [][NextSpinner]_vars

NextLookup == LookupBinaryField \/ SyncToolkitConfig
SpecLookup == InitLookup /\ [][NextLookup]_vars

====
